---- MODULE Spec2Model ----
(***************************************************************************)
(* Verification model of the scholar-agent pipeline                        *)
(* (src/src/agent_core/scholar_agent.py):                                  *)
(*   - ScholarAgent._llm_score_with_retry   (relevance scorer, SpecScore)  *)
(*   - ScholarAgent.find_next_pdf_replacement and                          *)
(*     ScholarAgent.download_pdfs           (download with backfill, Spec) *)
(*   - ScholarAgent.select_top_papers_llm   (SpecSelect)                    *)
(*   - ScholarAgent.read_search_terms       (SpecTerms)                     *)
(*   - ScholarAgent.scholar_search          (SpecSearch)                    *)
(* and of                                                                  *)
(*   - LLMClient.chunk_text                 (SpecChunk)                     *)
(*   - ResearchWorkflow.filter_pdfs and copy_relevant_pdfs (SpecResearch)  *)
(*   - rename_mode                          (SpecRename)                    *)
(* Time is counted in tenths of a second; scores are fixed-point numbers   *)
(* scaled by Scale.                                                        *)
(***************************************************************************)
EXTENDS Integers, Sequences, FiniteSets, TLC

(***************************************************************************)
(* Bounds of the model                                                     *)
(***************************************************************************)
\* longest backend response text, in characters
MaxRespLen == 3
\* no scoring call or idle period starts after this instant (tenths of a second)
MaxTime == 700
\* longest time one backend invocation takes (tenths of a second)
MaxCallTime == 4
\* longest candidate pool, longest selected list and largest max_attempts
\* download_pdfs is started with (the top-3-of-5 scenario is started too)
MaxPool == 1
MaxSelected == 2
MaxAttempts == 2
\* select_top_papers_llm: candidates passed in, and the largest top_n
MaxCands == 3
MaxTopN == 4
\* read_search_terms: lines of the sampled files
MaxLines == 2
\* scholar_search: result nodes on the page, and the largest num_results
MaxNodes == 3
MaxNumResults == 3
\* chunk_text: longest text in characters, largest max_tokens
MaxTextLen == 5
MaxTokens == 3
\* chunk_text: passes of the loop that are followed
MaxChunks == 4
\* ResearchWorkflow: entries of source_dir, paths passed to filter_pdfs
MaxFiles == 2
MaxPaths == 2
\* rename_mode: files under target_dir
MaxTree == 2

(***************************************************************************)
(* Program constants                                                       *)
(***************************************************************************)
\* max_retries=5
MaxRetries == 5
\* min_interval=12.1 seconds, in tenths of a second
MinInterval == 121
\* test_chunk_text: "word " * 1050, max_tokens=1000, overlap=100
TestWords == 1050
TestMaxTokens == 1000
TestOverlap == 100

VARIABLES
    \* ---- ScholarAgent._llm_score_with_retry ----
    now,            \* time.time()
    last_llm_call,  \* self._last_llm_call (0 while the attribute is unset)
    score_pc,       \* "idle" | "try" | "returned" | "raised"
    attempt,        \* loop variable of `for attempt in range(1, max_retries + 1)`
    result,         \* value returned to the caller, scaled (0 until it returns)
    \* ---- observation of the backend invocations (history) ----
    calls,          \* backend invocations made by the current scoring call
    allFailed,      \* every attempt of the current call raised or did not parse
    issuedAt,       \* when the latest backend invocation was issued (-1: none)
    lastOutcome,    \* "none" | "ok" | "raise": how the latest invocation ended
    lastOkRet,      \* when the latest invocation that returned did so (-1: none)
    gapIssue,       \* issuedAt minus the issue time of the invocation before
                    \* it (-1: there was none)
    gapOk           \* issuedAt minus the return time of the latest invocation
                    \* that had returned before it (-1: there was none)

scoreVars == <<now, last_llm_call, score_pc, attempt, result,
               calls, allFailed, issuedAt, lastOutcome, lastOkRet,
               gapIssue, gapOk>>

VARIABLES
    \* ---- ScholarAgent.download_pdfs: arguments ----
    papers,         \* the selected list, which is also the work queue
    all_papers,     \* the candidate pool (<<>>: None or empty)
    query,          \* the search query ("": None or empty)
    llm_client,     \* TRUE when a scoring client was passed
    max_attempts,
    \* ---- ScholarAgent.download_pdfs: locals ----
    results,        \* the manifest
    used_links,
    attempts,
    idx,
    dl_pc,          \* "idle" | "loop" | "done" | "raised"
    \* ---- the network ----
    good,           \* the links whose GET gives 200 and a PDF that is written
    \* ---- observation (history) ----
    selected0,      \* the selected list as the caller passed it
    pool0,          \* the pool as the caller passed it
    backfilled,     \* the replacements, in the order they were appended
    fetched,        \* the URLs of the GETs issued, in order
    scored,         \* number of _llm_score_with_retry calls made
    last_scored,    \* the list `scored` the latest loop pass built (line 152)
    last_get,       \* <<outcome>> of the GET of the latest loop pass, or <<>>
    triggered       \* the latest loop pass reached line 59 or line 93

dlVars == <<papers, all_papers, query, llm_client, max_attempts, results,
            used_links, attempts, idx, dl_pc, good, selected0, pool0,
            backfilled, fetched, scored, last_scored, last_get,
            triggered>>

VARIABLES
    \* ---- ScholarAgent.select_top_papers_llm: arguments and environment ----
    sel_papers,     \* the candidates, a list of (title, link)
    sel_client,     \* TRUE when llm_client was passed, FALSE when it is None
    env_keys,       \* the API keys set in the environment
    top_n,
    \* ---- ScholarAgent.select_top_papers_llm: locals ----
    sel_scored,     \* the list `scored`
    sel_pc,         \* "idle" | "start" | "score" | "returned" | "raised"
    sel_result      \* the returned list

selVars == <<sel_papers, sel_client, env_keys, top_n, sel_scored, sel_pc,
             sel_result>>

VARIABLES
    \* ---- ScholarAgent.read_search_terms ----
    terms_exists,   \* os.path.exists(self.search_terms_file)
    terms_file,     \* the lines of the file, each with its line end
    terms_i,        \* lines the loop has consumed
    terms,          \* the list `terms`
    terms_pc,       \* "idle" | "start" | "loop" | "returned" | "raised"
    terms_first     \* <<the list a first load returned>> once its lines
                    \* were written back to the file, else <<>>

termsVars == <<terms_exists, terms_file, terms_i, terms, terms_pc,
               terms_first>>

VARIABLES
    \* ---- ScholarAgent.scholar_search: argument and environment ----
    num_results,
    page_source,    \* driver.page_source after the query was submitted
    s_nodes,        \* the result nodes of that page, in page order
    \* ---- ScholarAgent.scholar_search: locals ----
    s_results,      \* the list `results`
    captcha_or_error,
    s_articles,     \* the list `articles`
    s_k,            \* nodes the extraction loop has visited
    s_pending,      \* the exception that is propagating ("": none)
    s_pc,           \* "idle" | "start" | "get" | "find_box" | "submit" |
                    \* "page" | "extract" | "finally" | "return" |
                    \* "returned" | "raised"
    \* ---- the browser and the providers (history) ----
    session,        \* "none" | "open" | "closed"
    quits,          \* driver.quit() calls
    submits,        \* times the query was submitted
    providers       \* the search providers consulted

searchVars == <<num_results, page_source, s_nodes, s_results,
                captcha_or_error, s_articles, s_k, s_pending, s_pc, session,
                quits, submits, providers>>

VARIABLES
    \* ---- LLMClient.chunk_text: arguments ----
    ck_text,        \* text, a sequence of characters
    ck_max_tokens,
    ck_overlap,
    \* ---- LLMClient.chunk_text: locals ----
    ck_words,
    ck_chunks,
    ck_start,
    ck_pc,          \* "idle" | "start" | "loop" | "return" | "returned"
    \* ---- observation (history) ----
    ck_spans        \* <<start, end>> of the slice each chunk was joined from

chunkVars == <<ck_text, ck_max_tokens, ck_overlap, ck_words, ck_chunks,
               ck_start, ck_pc, ck_spans>>

VARIABLES
    \* ---- ResearchWorkflow: arguments and environment ----
    rw_mode,        \* "idle" | "filter" (filter_pdfs called directly) | "copy"
    rw_listing,     \* os.listdir(source_dir), or <<>>
    rw_pdf_paths,   \* pdf_paths of filter_pdfs
    rw_threshold,   \* score_threshold, scaled
    rw_dirs,        \* the directories that exist under the destination
    rw_files,       \* the files that exist under the destination
    \* ---- filter_pdfs: locals ----
    rw_i,           \* paths the loop has consumed
    rw_relevant,    \* relevant_files
    rw_error_files, \* error_files, then self._error_files
    rw_reasons,     \* paper_reasons: <<selected, error>> of every path
    \* ---- copy_relevant_pdfs: locals ----
    rw_j,           \* files the running copy loop has consumed
    rw_copied,
    rw_pc,          \* "idle" | "start" | "filter" | "write" | "copy" |
                    \* "copy_err" | "return" | "returned" | "raised"
    rw_result,      \* what the called method returned
    \* ---- observation (history) ----
    rw_outcomes,    \* per path: how extraction and the LLM call ended
    rw_filtered,    \* <<list>> once filter_pdfs has returned list
    rw_attempts     \* the shutil.copy2 calls: source, destination, outcome

researchVars == <<rw_mode, rw_listing, rw_pdf_paths, rw_threshold, rw_dirs,
                  rw_files, rw_i, rw_relevant, rw_error_files, rw_reasons,
                  rw_j, rw_copied, rw_pc, rw_result, rw_outcomes,
                  rw_filtered, rw_attempts>>

VARIABLES
    \* ---- rename_mode: arguments and environment ----
    rn_tree,        \* the file names os.walk(target_dir) yields, in order
    rn_exts,        \* exts (the keys of HANDLER_MAP when it is None)
    rn_dry_run,
    rn_dirs,        \* the directories that exist at or under the destination
    rn_fs,          \* the files that exist under the destination
    \* ---- rename_mode: locals ----
    rn_files,       \* files = scan_files(target_dir, exts)
    rn_k,           \* files the main loop has consumed
    rn_results,
    rn_error_files,
    rn_j,           \* error files the copy loop has consumed
    rn_pc,          \* "idle" | "start" | "loop" | "copy_err" | "returned"
    rn_return,      \* the returned list
    \* ---- observation (history) ----
    rn_dirs0,       \* rn_dirs and rn_fs when the call started
    rn_fs0,
    rn_log,         \* per file: had a handler, what the LLM proposed last
    rn_copies       \* shutil.copy2 calls made

renameVars == <<rn_tree, rn_exts, rn_dry_run, rn_dirs, rn_fs, rn_files, rn_k,
                rn_results, rn_error_files, rn_j, rn_pc, rn_return,
                rn_dirs0, rn_fs0, rn_log, rn_copies>>

vars == <<scoreVars, dlVars, selVars, termsVars, searchVars,
         chunkVars,
         researchVars,
         renameVars>>

(***************************************************************************)
(* Arithmetic helpers                                                      *)
(***************************************************************************)
RECURSIVE Pow10(_)
Pow10(n) == IF n = 0 THEN 1 ELSE 10 * Pow10(n - 1)

\* fixed-point scale of scores: every decimal of at most MaxRespLen characters
\* is an exact multiple of 1/Scale
Scale == Pow10(MaxRespLen)

Max(a, b) == IF a >= b THEN a ELSE b

(***************************************************************************)
(* Backend responses: strings over a small alphabet                        *)
(***************************************************************************)
Alphabet == {"0", "1", ".", "-", " ", "x"}

Strings(n) == UNION {[1..k -> Alphabet] : k \in 0..n}

Responses == Strings(MaxRespLen)

\* the whitespace str.strip() removes
IsSpace(c) == c \in {" ", "\t", "\n"}

\* str.strip(): drop leading and trailing whitespace
RECURSIVE LStrip(_)
LStrip(s) == IF s # <<>> /\ IsSpace(Head(s)) THEN LStrip(Tail(s)) ELSE s

RECURSIVE RStrip(_)
RStrip(s) ==
    IF s # <<>> /\ IsSpace(s[Len(s)]) THEN RStrip(SubSeq(s, 1, Len(s) - 1)) ELSE s

\* (faulty variant: one whitespace character is dropped at each end)
StripOnce(s) ==
    LET l == IF s # <<>> /\ IsSpace(Head(s)) THEN Tail(s) ELSE s
    IN  IF l # <<>> /\ IsSpace(l[Len(l)]) THEN SubSeq(l, 1, Len(l) - 1) ELSE l
Strip(s) == RStrip(LStrip(s))

Digits == {"0", "1", "2", "3", "4", "5", "6", "7", "8", "9"}

DigitVal(c) ==
    CASE c = "0" -> 0 [] c = "1" -> 1 [] c = "2" -> 2 [] c = "3" -> 3
      [] c = "4" -> 4 [] c = "5" -> 5 [] c = "6" -> 6 [] c = "7" -> 7
      [] c = "8" -> 8 [] c = "9" -> 9

AllDigits(s) == \A i \in 1..Len(s) : s[i] \in Digits

RECURSIVE DigitsVal(_)
DigitsVal(s) ==
    IF s = <<>> THEN 0
    ELSE 10 * DigitsVal(SubSeq(s, 1, Len(s) - 1)) + DigitVal(s[Len(s)])

\* float(text): surrounding whitespace is ignored, then
\*   [sign] (digits ["." [digits]] | "." digits)
\* is a number and anything else raises ValueError.  The value is scaled by
\* Scale.  (Exponents, "inf", "nan" and "_" need characters outside Alphabet.)
ParseFloat(text) ==
    LET t     == Strip(text)
        neg   == t # <<>> /\ t[1] = "-"
        body  == IF neg THEN Tail(t) ELSE t
        dots  == {i \in 1..Len(body) : body[i] = "."}
        dot   == IF dots = {} THEN Len(body) + 1
                 ELSE CHOOSE i \in dots : \A j \in dots : i <= j
        ip    == SubSeq(body, 1, dot - 1)
        fp    == SubSeq(body, dot + 1, Len(body))
        ok    == /\ AllDigits(ip)
                 /\ AllDigits(fp)
                 /\ Len(ip) + Len(fp) >= 1
        mag   == DigitsVal(ip) * Scale
                   + DigitsVal(fp) * Pow10(MaxRespLen - Len(fp))
    IN  IF ok THEN [ok |-> TRUE, val |-> IF neg THEN 0 - mag ELSE mag]
        ELSE [ok |-> FALSE, val |-> 0]

\* the backend responses float() accepts after .strip(), those on which it
\* raises ValueError, and the values float() gives
NumberTexts == {text \in Responses : ParseFloat(Strip(text)).ok}

GarbageTexts == Responses \ NumberTexts

FloatOf(text) == ParseFloat(Strip(text)).val

NumberValues == {FloatOf(text) : text \in NumberTexts}

(***************************************************************************)
(* ScholarAgent._llm_score_with_retry                                      *)
(***************************************************************************)
\* how long a backend invocation may take
CallDurations == {0, MaxCallTime}

\* how long the caller may work between two scoring calls
IdleGaps == {0, MinInterval \div 2, MinInterval}

\* wait_time = max(0, min_interval - (now - last_call))
\* (faulty variant: the remaining interval is not waited for)
WaitTimeZero(t, last_call) == 0
WaitTime(t, last_call) == Max(0, MinInterval - (t - last_call))

\* `if attempt < max_retries` / exhaustion of range(1, max_retries + 1)
\* (faulty variant: range(1, max_retries), one attempt short)
MoreAttemptsShort(a) == a < MaxRetries - 1
\* (faulty variant: one attempt too many)
MoreAttemptsLong(a) == a < MaxRetries + 1
MoreAttempts(a) == a < MaxRetries

\* the agent is constructed long after the epoch: time.time() >= min_interval
ScoreInit ==
    /\ now = MinInterval
    /\ last_llm_call = 0
    /\ score_pc = "idle"
    /\ attempt = 0
    /\ result = 0
    /\ calls = 0
    /\ allFailed = FALSE
    /\ issuedAt = -1
    /\ lastOutcome = "none"
    /\ lastOkRet = -1
    /\ gapIssue = -1
    /\ gapOk = -1

\* lines 116-123: read the timestamp, sleep for the remainder of the interval
ScoreBegin ==
    /\ score_pc = "idle"
    /\ now <= MaxTime
    /\ now' = now + WaitTime(now, last_llm_call)
    /\ attempt' = 1
    /\ score_pc' = "try"
    /\ result' = 0
    /\ calls' = 0
    /\ allFailed' = TRUE
    /\ UNCHANGED <<last_llm_call, issuedAt, lastOutcome, lastOkRet,
                   gapIssue, gapOk>>

\* line 127 runs only when generate_content returned: the timestamp after
\* an invocation that ended at t
\* (faulty variant: an invocation that raised is stamped too)
StampAfterAny(outcome, t, last_call) == t
StampAfter(outcome, t, last_call) == IF outcome = "ok" THEN t ELSE last_call

\* history of one backend invocation issued now that ends at t
Invoked(t, outcome) ==
    /\ calls' = calls + 1
    /\ issuedAt' = now
    /\ lastOutcome' = outcome
    /\ lastOkRet' = IF outcome = "ok" THEN t ELSE lastOkRet
    /\ gapIssue' = IF issuedAt < 0 THEN -1 ELSE now - issuedAt
    /\ gapOk' = IF lastOkRet < 0 THEN -1 ELSE now - lastOkRet

\* lines 129-137: the except clause at instant t, then the next attempt
\* after time.sleep(min_interval), or the fall-through `return 0.0`
ExceptClause(t) ==
    IF MoreAttempts(attempt)
    THEN /\ now' = t + MinInterval
         /\ attempt' = attempt + 1
         /\ UNCHANGED <<score_pc, result, allFailed>>
    ELSE /\ now' = t
         /\ score_pc' = "returned"
         /\ result' = 0
         /\ UNCHANGED <<attempt, allFailed>>

\* lines 126-128: generate_content returns text that float() accepts
GenerateReturnsNumber ==
    /\ score_pc = "try"
    /\ \E v \in NumberValues, d \in CallDurations :
         /\ Invoked(now + d, "ok")
         /\ last_llm_call' = StampAfter("ok", now + d, last_llm_call)
         /\ now' = now + d
         /\ result' = v
         /\ score_pc' = "returned"
         /\ allFailed' = FALSE
         /\ UNCHANGED attempt

\* lines 126-134: generate_content returns text on which float() raises
\* ValueError, caught by the except clause
GenerateReturnsGarbage ==
    /\ score_pc = "try"
    /\ GarbageTexts # {}
    /\ \E d \in CallDurations :
         /\ Invoked(now + d, "ok")
         /\ last_llm_call' = StampAfter("ok", now + d, last_llm_call)
         /\ ExceptClause(now + d)

\* lines 126, 129-134: generate_content raises
GenerateRaises ==
    /\ score_pc = "try"
    /\ \E d \in CallDurations :
         /\ Invoked(now + d, "raise")
         /\ last_llm_call' = StampAfter("raise", now + d, last_llm_call)
         /\ ExceptClause(now + d)

\* the caller takes the returned score and works for d before it scores again
ScoreReturn ==
    /\ score_pc = "returned"
    /\ score_pc' = "idle"
    /\ result' = 0
    /\ \E d \in IdleGaps : now' = now + d
    /\ UNCHANGED <<last_llm_call, attempt, calls, allFailed, issuedAt,
                   lastOutcome, lastOkRet, gapIssue, gapOk>>

(***************************************************************************)
(* Candidates and links                                                    *)
(***************************************************************************)
\* a link is a sequence of characters; NoLink is None or the empty string
NoLink == <<>>
LinkA == <<"a", ".", "p", "d", "f">>
LinkB == <<"b", ".", "P", "D", "F">>
LinkC == <<"c", ".", "p", "d", "f">>
LinkD == <<"d", ".", "P", "d", "f">>
LinkE == <<"e", ".", "p", "d", "f">>
LinkH == <<"h", ".", "h", "t", "m">>

\* the links download_pdfs is started with
Links == {LinkA, LinkB, LinkH, NoLink}

\* the links of the top-3-of-5 scenario
Top3Links == <<LinkA, LinkB, LinkC, LinkD, LinkE>>

TitleOf(link) ==
    CASE link = LinkA -> "Paper A" [] link = LinkB -> "Paper B"
      [] link = LinkC -> "Paper C" [] link = LinkD -> "Paper D"
      [] link = LinkE -> "Paper E" [] link = LinkH -> "Paper H"
      [] OTHER -> "Paper without link"

AsciiUpper ==
    <<"A", "B", "C", "D", "E", "F", "G", "H", "I", "J", "K", "L", "M", "N",
      "O", "P", "Q", "R", "S", "T", "U", "V", "W", "X", "Y", "Z">>

AsciiLower ==
    <<"a", "b", "c", "d", "e", "f", "g", "h", "i", "j", "k", "l", "m", "n",
      "o", "p", "q", "r", "s", "t", "u", "v", "w", "x", "y", "z">>

\* str.lower() on one character
LowerChar(c) ==
    IF \E i \in 1..Len(AsciiUpper) : AsciiUpper[i] = c
    THEN AsciiLower[CHOOSE i \in 1..Len(AsciiUpper) : AsciiUpper[i] = c]
    ELSE c

Lower(s) == [i \in 1..Len(s) |-> LowerChar(s[i])]

\* str.endswith / str.startswith
EndsWith(s, suffix) ==
    /\ Len(s) >= Len(suffix)
    /\ SubSeq(s, Len(s) - Len(suffix) + 1, Len(s)) = suffix

StartsWith(s, prefix) ==
    /\ Len(s) >= Len(prefix)
    /\ SubSeq(s, 1, Len(prefix)) = prefix

PdfSuffix == <<".", "p", "d", "f">>

\* `link and link.lower().endswith('.pdf')`
IsPdfLink(link) == link # NoLink /\ EndsWith(Lower(link), PdfSuffix)

\* an entry (title, link) of all_papers and an entry (title, link, score)
\* of papers
Candidate(link) == [title |-> TitleOf(link), link |-> link]

Paper(c, score) == [title |-> c.title, link |-> c.link, score |-> score]

SeqsUpTo(S, n) == UNION {[1..k -> S] : k \in 0..n}

\* values _llm_score_with_retry returns to download_pdfs: 0.0 (also after
\* five failed attempts), 0.1 and 1.0
LlmScores == {0} \cup (NumberValues \cap {Scale \div 10, Scale})

\* the score the selected papers carry
SelectedScore == Scale \div 2

(***************************************************************************)
(* HTTP fetch: requests.get(url, timeout=20) and the file write            *)
(***************************************************************************)
\* a content-type header: the media type, then its parameters
PdfType == <<"application/pdf">>

OkOutcome ==
    [raised |-> FALSE, status_code |-> 200, content_type |-> PdfType,
     written |-> TRUE]

\* raised: requests.get raises; written: open/write would complete
FailOutcomes ==
    { [raised |-> TRUE, status_code |-> 0, content_type |-> <<>>,
       written |-> TRUE],
      [raised |-> FALSE, status_code |-> 404, content_type |-> PdfType,
       written |-> TRUE],
      [raised |-> FALSE, status_code |-> 200, content_type |-> <<"text/html">>,
       written |-> TRUE],
      [raised |-> FALSE, status_code |-> 200, content_type |-> <<>>,
       written |-> TRUE],
      [raised |-> FALSE, status_code |-> 200,
       content_type |-> <<"application/pdf", "charset=binary">>,
       written |-> FALSE] }

\* the same with a parameter after the media type
OkOutcomeParam ==
    [raised |-> FALSE, status_code |-> 200,
     content_type |-> <<"application/pdf", "charset=binary">>,
     written |-> TRUE]

\* what a GET of url can give
GetOutcomes(url) ==
    IF url \in good THEN {OkOutcome, OkOutcomeParam} ELSE FailOutcomes

\* lines 45-51: status 200, a PDF content type, and the write completes
\* (faulty variant: the content type is not looked at)
FetchOkAnyType(r) == ~r.raised /\ r.status_code = 200 /\ r.written
\* (faulty variant: a write that fails still counts)
FetchOkUnwritten(r) ==
    ~r.raised /\ r.status_code = 200 /\ StartsWith(r.content_type, PdfType)
FetchOk(r) ==
    /\ ~r.raised
    /\ r.status_code = 200
    /\ StartsWith(r.content_type, PdfType)
    /\ r.written

\* the exception the try block of lines 42-53 ends with when the fetch does
\* not succeed: raised by requests.get, by line 53, or by open/write
RaisedBy(r) ==
    IF r.raised THEN "RequestException"
    ELSE IF r.status_code = 200 /\ StartsWith(r.content_type, PdfType)
         THEN "OSError"
         ELSE "Exception"

\* line 54, `except Exception`: every one of these classes derives from
\* Exception (narrower variant: `except requests.RequestException`)
ExceptRequestException(cls) == cls = "RequestException"
\* (faulty variant: a try block with a finally clause only)
ExceptNothing(cls) == FALSE
ExceptException(cls) ==
    cls \in {"Exception", "RequestException", "OSError", "WebDriverException"}

(***************************************************************************)
(* ScholarAgent.find_next_pdf_replacement                                  *)
(***************************************************************************)
\* (faulty variants of the sort: ascending; equal scores change places)
RECURSIVE InsertAsc(_, _)
InsertAsc(sorted, x) ==
    IF sorted = <<>> THEN <<x>>
    ELSE IF Head(sorted).score <= x.score
         THEN <<Head(sorted)>> \o InsertAsc(Tail(sorted), x)
         ELSE <<x>> \o sorted

RECURSIVE InsertDescUnstable(_, _)
InsertDescUnstable(sorted, x) ==
    IF sorted = <<>> THEN <<x>>
    ELSE IF Head(sorted).score > x.score
         THEN <<Head(sorted)>> \o InsertDescUnstable(Tail(sorted), x)
         ELSE <<x>> \o sorted

\* list.sort(key=score, reverse=True): stable, descending
RECURSIVE InsertDesc(_, _)
InsertDesc(sorted, x) ==
    IF sorted = <<>> THEN <<x>>
    ELSE IF Head(sorted).score >= x.score
         THEN <<Head(sorted)>> \o InsertDesc(Tail(sorted), x)
         ELSE <<x>> \o sorted

RECURSIVE SortDesc(_)
SortDesc(s) ==
    IF s = <<>> THEN <<>>
    ELSE InsertDesc(SortDesc(SubSeq(s, 1, Len(s) - 1)), s[Len(s)])

\* line 144: PDF-suffixed and not already used
\* (faulty variant: used links are not excluded)
IsCandidateAnyLink(p, used) == IsPdfLink(p.link)
\* (faulty variant: the suffix is not looked at)
IsCandidateAnySuffix(p, used) == p.link \notin used
IsCandidate(p, used) == IsPdfLink(p.link) /\ p.link \notin used

Candidates(pool, used) == SelectSeq(pool, LAMBDA p : IsCandidate(p, used))

\* lines 145-159 with the scores the scorer gives the candidates, in order:
\* <<>> for None, else <<best>>
\* (faulty variant: the first candidate is taken, whatever the scores)
FindNextPdfReplacementFirst(candidates, scores) ==
    IF candidates = <<>> THEN <<>>
    ELSE <<Paper(candidates[1], scores[1])>>
FindNextPdfReplacement(candidates, scores) ==
    IF candidates = <<>> THEN <<>>
    ELSE LET scoredList ==
                 [i \in 1..Len(candidates) |-> Paper(candidates[i], scores[i])]
         IN  <<SortDesc(scoredList)[1]>>

\* line 195-201: the landing-page resolver is a stub that returns None
\* (variant: a resolver that finds a PDF link on every landing page)
FindPdfOnLandingPageFound(url) == LinkA
\* (variant: a resolver that takes the landing page itself for the PDF)
FindPdfOnLandingPageSelf(url) == url
FindPdfOnLandingPage(url) == NoLink

(***************************************************************************)
(* ScholarAgent.download_pdfs                                              *)
(***************************************************************************)
DigitChars == <<"0", "1", "2", "3", "4", "5", "6", "7", "8", "9">>

\* str(n)
RECURSIVE DecStr(_)
DecStr(n) ==
    IF n < 10 THEN <<DigitChars[n + 1]>>
    ELSE DecStr(n \div 10) \o <<DigitChars[(n % 10) + 1]>>

\* os.path.join(dir, name) and os.path.basename(path)
PathJoin(dir, name) == [dir |-> dir, name |-> name]
Basename(path) == path.name

\* dest_folder="downloaded_papers"
DestFolder == "downloaded_papers"

\* the characters of the sample titles
TitleChars(title) ==
    CASE title = "Paper A" -> <<"P", "a", "p", "e", "r", " ", "A">>
      [] title = "Paper B" -> <<"P", "a", "p", "e", "r", " ", "B">>
      [] title = "Paper C" -> <<"P", "a", "p", "e", "r", " ", "C">>
      [] title = "Paper D" -> <<"P", "a", "p", "e", "r", " ", "D">>
      [] title = "Paper E" -> <<"P", "a", "p", "e", "r", " ", "E">>
      [] title = "Paper H" -> <<"P", "a", "p", "e", "r", " ", "H">>
      [] OTHER -> <<"P", "a", "p", "e", "r", " ", "w", "i", "t", "h", "o",
                    "u", "t", " ", "l", "i", "n", "k">>

\* name[:100]
TitleMaxLen == 100

\* lines 161-166: ScholarAgent.sanitize_filename(name)
SanitizeTitle(name) ==
    LET kept     == SelectSeq(name,
                        LAMBDA c : c \notin {"\\", "/", ":", "*", "?", "\"",
                                             "<", ">", "|"})
        stripped == Strip(kept)
        joined   == [i \in 1..Len(stripped) |->
                       IF stripped[i] = " " THEN "_" ELSE stripped[i]]
    IN  SubSeq(joined, 1,
               IF Len(joined) <= TitleMaxLen THEN Len(joined) ELSE TitleMaxLen)

\* (faulty variant: the prefix is the item's position in the queue)
FilePrefixByIndex(n_attempts, i) == i + 1
\* f"{attempts+1}_..."
FilePrefix(n_attempts, i) == n_attempts + 1

\* lines 43 and 72: the file the PDF is written to
FileName(n_attempts, i, title) ==
    PathJoin(DestFolder,
             DecStr(FilePrefix(n_attempts, i)) \o <<"_">>
               \o SanitizeTitle(TitleChars(title)) \o PdfSuffix)

LinksOf(s) == {s[i].link : i \in 1..Len(s)}

\* lines 35-38
DlStart ==
    /\ results = <<>>
    /\ used_links = LinksOf(papers)
    /\ attempts = 0
    /\ idx = 0
    /\ dl_pc = "loop"
    /\ selected0 = papers
    /\ pool0 = all_papers
    /\ backfilled = <<>>
    /\ fetched = <<>>
    /\ scored = 0
    /\ last_scored = <<>>
    /\ last_get = <<>>
    /\ triggered = FALSE

\* any call within the bounds
DlInitBounded ==
    /\ all_papers \in SeqsUpTo({Candidate(l) : l \in Links}, MaxPool)
    /\ papers \in SeqsUpTo({Paper(Candidate(l), SelectedScore) : l \in Links},
                           MaxSelected)
    /\ query \in {"", "q"}
    /\ llm_client \in BOOLEAN
    /\ max_attempts \in 0..MaxAttempts
    /\ good \in SUBSET {l \in Links : IsPdfLink(l)}
    /\ DlStart

\* download_pdfs(top3, all_papers=all5, query=q, llm_client=client): five
\* candidates with PDF links, the first three selected, max_attempts=3
DlInitTop3 ==
    /\ all_papers = [i \in 1..5 |-> Candidate(Top3Links[i])]
    /\ papers = [i \in 1..3 |-> Paper(Candidate(Top3Links[i]), SelectedScore)]
    /\ query = "q"
    /\ llm_client = TRUE
    /\ max_attempts = 3
    /\ good \in SUBSET {Top3Links[i] : i \in 1..5}
    /\ DlStart

DlInit == DlInitBounded \/ DlInitTop3

\* no download_pdfs call
DlIdle ==
    /\ all_papers = <<>>
    /\ papers = <<>>
    /\ query = ""
    /\ llm_client = FALSE
    /\ max_attempts = 0
    /\ good = {}
    /\ results = <<>>
    /\ used_links = {}
    /\ attempts = 0
    /\ idx = 0
    /\ dl_pc = "idle"
    /\ selected0 = <<>>
    /\ pool0 = <<>>
    /\ backfilled = <<>>
    /\ fetched = <<>>
    /\ scored = 0
    /\ last_scored = <<>>
    /\ last_get = <<>>
    /\ triggered = FALSE

\* line 39
\* (faulty variants: no success budget; the budget counts dequeued items)
LoopCondNoBudget == idx < Len(papers)
LoopCondByIndex == idx < max_attempts /\ idx < Len(papers)
\* (faulty variant: the items appended during the call are not processed)
LoopCondSelectedOnly == attempts < max_attempts /\ idx < Len(selected0)
LoopCond == attempts < max_attempts /\ idx < Len(papers)

\* papers.append(replacement)
\* (faulty variant: the replacement jumps the queue)
EnqueueFront(queue, item) == <<item>> \o queue
Enqueue(queue, item) == Append(queue, item)

Record(title, link, score, status, info) ==
    [title |-> title, link |-> link, score |-> score, status |-> status,
     info |-> info]

\* (faulty variant: a pool alone is enough to backfill)
CanBackfillPoolOnly(pool, q, client) == pool # <<>>
\* lines 59 and 93: `if all_papers and query and llm_client`
CanBackfill(pool, q, client) == pool # <<>> /\ q # "" /\ client

\* lines 59-63 and 93-97: try to replace with the next best PDF of all_papers
Backfill ==
    /\ triggered' = TRUE
    /\ IF CanBackfill(all_papers, query, llm_client)
       THEN LET candidates == Candidates(all_papers, used_links)
            IN  \E scores \in [1..Len(candidates) -> LlmScores] :
                  LET replacement == FindNextPdfReplacement(candidates, scores)
                  IN  /\ scored' = scored + Len(candidates)
                      /\ last_scored' =
                             [i \in 1..Len(candidates) |->
                                 Paper(candidates[i], scores[i])]
                      /\ IF replacement # <<>>
                         THEN /\ papers' = Enqueue(papers, replacement[1])
                              /\ used_links' =
                                     used_links \cup {replacement[1].link}
                              /\ backfilled' =
                                     Append(backfilled, replacement[1])
                         ELSE UNCHANGED <<papers, used_links, backfilled>>
       ELSE /\ last_scored' = <<>>
            /\ UNCHANGED <<papers, used_links, backfilled, scored>>

\* the loop body ends without reaching lines 59 or 93
NoBackfill ==
    /\ triggered' = FALSE
    /\ last_scored' = <<>>
    /\ UNCHANGED <<papers, used_links, backfilled, scored>>

\* lines 40-51: a direct PDF link whose fetch succeeds
DirectPdfOk ==
    /\ dl_pc = "loop"
    /\ LoopCond
    /\ LET p == papers[idx + 1]
       IN  /\ IsPdfLink(p.link)
           /\ \E r \in GetOutcomes(p.link) :
                /\ FetchOk(r)
                /\ last_get' = <<r>>
                /\ results' = Append(results,
                       Record(p.title, p.link, p.score, "success",
                              <<FileName(attempts, idx, p.title)>>))
                /\ fetched' = Append(fetched, p.link)
    /\ attempts' = attempts + 1
    /\ NoBackfill
    /\ idx' = idx + 1
    /\ UNCHANGED <<all_papers, query, llm_client, max_attempts, dl_pc, good,
                   selected0, pool0>>

\* lines 40-45, 52-63: a direct PDF link whose fetch fails
DirectPdfFail ==
    /\ dl_pc = "loop"
    /\ LoopCond
    /\ LET p == papers[idx + 1]
       IN  /\ IsPdfLink(p.link)
           /\ \E r \in GetOutcomes(p.link) :
                /\ ~FetchOk(r)
                /\ last_get' = <<r>>
                /\ fetched' = Append(fetched, p.link)
                /\ IF ExceptException(RaisedBy(r))
                   THEN /\ results' = Append(results,
                               Record(p.title, p.link, p.score, "fail",
                                      <<"error">>))
                        /\ Backfill
                        /\ idx' = idx + 1
                        /\ UNCHANGED dl_pc
                   ELSE /\ dl_pc' = "raised"
                        /\ UNCHANGED <<results, idx, papers, used_links,
                                       backfilled, scored, last_scored,
                                       triggered>>
    /\ UNCHANGED <<all_papers, query, llm_client, max_attempts, attempts,
                   good, selected0, pool0>>

\* lines 64-98: not a direct PDF link
NotDirectPdf ==
    /\ dl_pc = "loop"
    /\ LoopCond
    /\ LET p       == papers[idx + 1]
           pdf_url == IF p.link # NoLink THEN FindPdfOnLandingPage(p.link)
                      ELSE NoLink
           skip    == Record(p.title, p.link, p.score, "skip",
                             <<"Not a direct PDF link">>)
       IN  /\ ~IsPdfLink(p.link)
           /\ IF pdf_url # NoLink
              THEN \E r \in GetOutcomes(pdf_url) :
                     /\ last_get' = <<r>>
                     /\ fetched' = Append(fetched, pdf_url)
                     /\ IF FetchOk(r)
                        THEN /\ results' = Append(results,
                                    Record(p.title, pdf_url, p.score, "success",
                                           <<FileName(attempts, idx, p.title)>>))
                             /\ attempts' = attempts + 1
                             /\ NoBackfill
                             /\ idx' = idx + 1
                             /\ UNCHANGED dl_pc
                        ELSE IF ExceptException(RaisedBy(r))
                        THEN /\ results' = results \o
                                    << Record(p.title, pdf_url, p.score, "fail",
                                              <<"error">>),
                                       skip >>
                             /\ Backfill
                             /\ idx' = idx + 1
                             /\ UNCHANGED <<attempts, dl_pc>>
                        ELSE /\ dl_pc' = "raised"
                             /\ UNCHANGED <<results, idx, attempts, papers,
                                            used_links, backfilled, scored,
                                            last_scored,
                                            triggered>>
              ELSE /\ results' = Append(results, skip)
                   /\ Backfill
                   /\ last_get' = <<>>
                   /\ idx' = idx + 1
                   /\ UNCHANGED <<attempts, fetched, dl_pc>>
    /\ UNCHANGED <<all_papers, query, llm_client, max_attempts, good,
                   selected0, pool0>>

\* line 99: return results
DlReturn ==
    /\ dl_pc = "loop"
    /\ ~LoopCond
    /\ dl_pc' = "done"
    /\ UNCHANGED <<papers, all_papers, query, llm_client, max_attempts,
                   results, used_links, attempts, idx, good, selected0,
                   pool0, backfilled, fetched, scored, last_scored,
                   last_get, triggered>>

(***************************************************************************)
(* ScholarAgent.select_top_papers_llm                                      *)
(***************************************************************************)
\* the slice s[:n] for n >= 0: the elements at the 0-based indices below n
\* (faulty variant: s[:n-1])
SliceToShort(s, n) ==
    LET kept == {i \in 1..Len(s) : i < n}
    IN  [i \in 1..Cardinality(kept) |-> s[i]]
SliceTo(s, n) ==
    LET kept == {i \in 1..Len(s) : i - 1 < n}
    IN  [i \in 1..Cardinality(kept) |-> s[i]]

ApiKeys == {"GEMINI_API_KEY", "EXA_API_KEY"}

\* LLMClient() with no arguments: both keys must be in the environment
\* (faulty variant: the search key is optional)
LLMClientConstructsGemini(keys) == "GEMINI_API_KEY" \in keys
LLMClientConstructs(keys) == ApiKeys \subseteq keys

\* a call select_top_papers_llm(query, papers, llm_client, top_n)
SelInit ==
    /\ sel_papers \in SeqsUpTo({Candidate(l) : l \in Links}, MaxCands)
    /\ sel_client \in BOOLEAN
    /\ env_keys \in SUBSET ApiKeys
    /\ top_n \in 0..MaxTopN
    /\ sel_scored = <<>>
    /\ sel_pc = "start"
    /\ sel_result = <<>>

\* no select_top_papers_llm call
SelIdle ==
    /\ sel_papers = <<>>
    /\ sel_client = FALSE
    /\ env_keys = {}
    /\ top_n = 0
    /\ sel_scored = <<>>
    /\ sel_pc = "idle"
    /\ sel_result = <<>>

\* lines 182-184: the client is given or can be constructed
SelClientReady ==
    /\ sel_pc = "start"
    /\ sel_client \/ LLMClientConstructs(env_keys)
    /\ sel_pc' = "score"
    /\ UNCHANGED <<sel_papers, sel_client, env_keys, top_n, sel_scored,
                   sel_result>>

\* line 183: LLMClient() raises ValueError
SelClientRaises ==
    /\ sel_pc = "start"
    /\ ~sel_client
    /\ ~LLMClientConstructs(env_keys)
    /\ sel_pc' = "raised"
    /\ UNCHANGED <<sel_papers, sel_client, env_keys, top_n, sel_scored,
                   sel_result>>

\* lines 185-187: score the next candidate
SelScore ==
    /\ sel_pc = "score"
    /\ Len(sel_scored) < Len(sel_papers)
    /\ \E score \in LlmScores :
         sel_scored' = Append(sel_scored,
                              Paper(sel_papers[Len(sel_scored) + 1], score))
    /\ UNCHANGED <<sel_papers, sel_client, env_keys, top_n, sel_pc,
                   sel_result>>

\* lines 189-194: sort and return the first top_n
SelReturn ==
    /\ sel_pc = "score"
    /\ Len(sel_scored) = Len(sel_papers)
    /\ sel_result' = SliceTo(SortDesc(sel_scored), top_n)
    /\ sel_pc' = "returned"
    /\ UNCHANGED <<sel_papers, sel_client, env_keys, top_n, sel_scored>>

(***************************************************************************)
(* ScholarAgent.read_search_terms                                          *)
(***************************************************************************)
UpperLetters ==
    {"A", "B", "C", "D", "E", "F", "G", "H", "I", "J", "K", "L", "M",
     "N", "O", "P", "Q", "R", "S", "T", "U", "V", "W", "X", "Y", "Z"}

LowerLetters ==
    {"a", "b", "c", "d", "e", "f", "g", "h", "i", "j", "k", "l", "m",
     "n", "o", "p", "q", "r", "s", "t", "u", "v", "w", "x", "y", "z"}

\* str.isupper(): at least one cased character and none of them lower-case
IsUpper(s) ==
    /\ \E i \in 1..Len(s) : s[i] \in UpperLetters
    /\ \A i \in 1..Len(s) : s[i] \notin LowerLetters

\* `sub in s`
Contains(s, sub) ==
    \E i \in 1..(Len(s) - Len(sub) + 1) : SubSeq(s, i, i + Len(sub) - 1) = sub

\* lines of a search-terms file, without their line ends
LineBlank == <<>>

LineSpaces == <<" ", " ", "\t">>

LineHeading == <<"#", " ", "H", "e", "a", "d", "i", "n", "g">>

LineFooBar ==
    <<"(", "\"", "f", "o", "o", "\"", " ", "O", "R", " ", "\"", "b", "a",
      "r", "\"", ")", " ", "A", "N", "D", " ", "(", "b", "a", "z", ")">>

LineExample ==
    <<"E", "x", "a", "m", "p", "l", "e", ":", " ", "(", "n", "o", "t", " ",
      "a", " ", "q", "u", "e", "r", "y", ")">>

LineAndExplained ==
    <<"A", "N", "D", ":", " ", "N", "a", "r", "r", "o", "w", "s", " ", "y",
      "o", "u", "r", " ", "s", "e", "a", "r", "c", "h", " ", "(", "a", "l",
      "l", " ", "t", "e", "r", "m", "s", " ", "m", "u", "s", "t", " ", "b",
      "e", " ", "p", "r", "e", "s", "e", "n", "t", ")", ".">>

LineOrExplained ==
    <<"O", "R", ":", " ", "B", "r", "o", "a", "d", "e", "n", "s", " ", "y",
      "o", "u", "r", " ", "s", "e", "a", "r", "c", "h", " ", "(", "a", "n",
      "y", " ", "o", "f", " ", "t", "h", "e", " ", "t", "e", "r", "m", "s",
      " ", "c", "a", "n", " ", "b", "e", " ", "p", "r", "e", "s", "e", "n",
      "t", ")", ".">>

LineAlphaBeta ==
    <<"(", "\"", "a", "l", "p", "h", "a", "\"", " ", "O", "R", " ", "\"",
      "b", "e", "t", "a", "\"", ")", " ", "A", "N", "D", " ", "(", "g",
      "a", "m", "m", "a", ")">>

LinePadded == <<" ", " ", "(", "a", " ", "A", "N", "D", " ", "b", ")", "\t">>

LineBareOr == <<"c", "a", "t", "s", " ", "O", "R", " ", "d", "o", "g", "s">>

LineQuoted == <<"\"", "a", "\"", " ", "O", "R", " ", "b">>

LineCapsShort == <<"(", "A", " ", "A", "N", "D", " ", "B", ")">>

LineCapsLong ==
    <<"(", "\"", "M", "A", "C", "H", "I", "N", "E", " ", "L", "E", "A",
      "R", "N", "I", "N", "G", "\"", " ", "O", "R", " ", "\"", "A", "I",
      "\"", ")", " ", "A", "N", "D", " ", "(", "H", "E", "A", "L", "T",
      "H", ")">>

LineColon == <<"(", "a", " ", "A", "N", "D", " ", "b", ")", ":">>

LineTips ==
    <<"T", "i", "p", "s", " ", "f", "o", "r", " ", "(", "a", " ", "O", "R",
      " ", "b", ")">>

LineProTip ==
    <<"P", "r", "o", "-", "T", "i", "p", ":", " ", "(", "a", " ", "O", "R",
      " ", "b", ")">>

LineBrand == <<"(", "B", "R", "A", "N", "D", "y", ")">>

LineLowerAnd == <<"(", "a", " ", "a", "n", "d", " ", "b", ")">>

LineHashQuery == <<"#", "(", "a", " ", "A", "N", "D", " ", "b", ")">>

\* one line as iterating over the open file yields it
RawLine(s) == s \o <<"\n">>

FileOf(ls) == [i \in 1..Len(ls) |-> RawLine(ls[i])]

\* the file of test_read_search_terms_filters_only_queries
TestFile ==
    FileOf(<<LineBlank, LineHeading, LineFooBar, LineExample,
             LineAndExplained, LineAlphaBeta>>)

SampleLines ==
    {LineBlank, LineSpaces, LineHeading, LineFooBar, LineExample,
     LineAndExplained, LineOrExplained, LineAlphaBeta, LinePadded,
     LineBareOr, LineQuoted, LineCapsShort, LineCapsLong, LineColon,
     LineTips, LineProTip, LineBrand, LineLowerAnd, LineHashQuery}

ExamplePrefix == <<"E", "x", "a", "m", "p", "l", "e", ":">>
ProTipPrefix == <<"P", "r", "o", "-", "T", "i", "p", ":">>
TipsPrefix == <<"T", "i", "p", "s", " ", "f", "o", "r">>

\* line 302: `len(line) < 40`
HeaderMaxLen == 40

\* lines 305-310: instructional phrases and lines ending with a colon
\* (faulty variant: the colon rule is missing)
IsInstructionNoColon(line) ==
    \/ StartsWith(line, ExamplePrefix)
    \/ StartsWith(line, ProTipPrefix)
    \/ StartsWith(line, TipsPrefix)
IsInstruction(line) ==
    \/ StartsWith(line, ExamplePrefix)
    \/ StartsWith(line, ProTipPrefix)
    \/ StartsWith(line, TipsPrefix)
    \/ EndsWith(line, <<":">>)

\* lines 313-316
Explanations == {LineAndExplained, LineOrExplained}

\* lines 319-324
LooksLikeQuery(line) ==
    LET hasAnd == Contains(line, <<"A", "N", "D">>)
        hasOr  == Contains(line, <<"O", "R">>)
    IN  \/ (hasAnd \/ hasOr) /\ (Contains(line, <<"(">>) \/ Contains(line, <<")">>))
        \/ Contains(line, <<"\"">>) /\ (hasAnd \/ hasOr)

\* lines 297-325 for one stripped line: TRUE when terms.append(line) runs
LineKept(line) ==
    IF line = <<>> \/ StartsWith(line, <<"#">>) THEN FALSE
    ELSE IF IsUpper(line) /\ Len(line) < HeaderMaxLen THEN FALSE
    ELSE IF IsInstruction(line) THEN FALSE
    ELSE IF Strip(line) \in Explanations THEN FALSE
    ELSE LooksLikeQuery(line)

\* lines 292-295: the path is tested before the file is opened
\* (lenient variant: a missing file reads as an empty one)
OpenOutcomeLenient(exists) == "opened"
OpenOutcome(exists) == IF exists THEN "opened" ELSE "FileNotFoundError"

\* a call of read_search_terms: no file, the test file, or a file of up to
\* MaxLines sample lines
TermsInit ==
    /\ \/ terms_exists = FALSE /\ terms_file = <<>>
       \/ /\ terms_exists = TRUE
          /\ terms_file \in
               {TestFile} \cup {FileOf(ls) : ls \in SeqsUpTo(SampleLines, MaxLines)}
    /\ terms_i = 0
    /\ terms = <<>>
    /\ terms_pc = "start"
    /\ terms_first = <<>>

\* no read_search_terms call
TermsIdle ==
    /\ terms_exists = FALSE
    /\ terms_file = <<>>
    /\ terms_i = 0
    /\ terms = <<>>
    /\ terms_pc = "idle"
    /\ terms_first = <<>>

\* lines 292-295: the file exists and is opened
TermsOpen ==
    /\ terms_pc = "start"
    /\ OpenOutcome(terms_exists) = "opened"
    /\ terms_pc' = "loop"
    /\ UNCHANGED <<terms_exists, terms_file, terms_i, terms, terms_first>>

\* line 293: raise FileNotFoundError
TermsNotFound ==
    /\ terms_pc = "start"
    /\ OpenOutcome(terms_exists) = "FileNotFoundError"
    /\ terms_pc' = "raised"
    /\ UNCHANGED <<terms_exists, terms_file, terms_i, terms, terms_first>>

\* lines 296-325: one pass of `for line in f`
TermsLine ==
    /\ terms_pc = "loop"
    /\ terms_i < Len(terms_file)
    /\ LET line == Strip(terms_file[terms_i + 1])
       IN  terms' = IF LineKept(line) THEN Append(terms, line) ELSE terms
    /\ terms_i' = terms_i + 1
    /\ UNCHANGED <<terms_exists, terms_file, terms_pc, terms_first>>

\* line 326
TermsReturn ==
    /\ terms_pc = "loop"
    /\ terms_i = Len(terms_file)
    /\ terms_pc' = "returned"
    /\ UNCHANGED <<terms_exists, terms_file, terms_i, terms, terms_first>>

\* the characters of a file the lines ls are written to, one per line
RECURSIVE WriteLines(_)
WriteLines(ls) ==
    IF ls = <<>> THEN <<>>
    ELSE ls[1] \o <<"\n">> \o WriteLines(Tail(ls))

\* `for line in f`: the content cut after every line end; a rest without a
\* line end is the last line
ReadLines(content) ==
    LET n    == Len(content)
        ends == SelectSeq([i \in 1..n |-> i],
                          LAMBDA i : content[i] = "\n" \/ i = n)
    IN  [k \in 1..Len(ends) |->
            SubSeq(content, IF k = 1 THEN 1 ELSE ends[k - 1] + 1, ends[k])]

\* the lines a first load returned are written to the file, one per line,
\* and read_search_terms is called again
TermsWriteBack ==
    /\ terms_pc = "returned"
    /\ terms_first = <<>>
    /\ terms_first' = <<terms>>
    /\ terms_file' = ReadLines(WriteLines(terms))
    /\ terms_i' = 0
    /\ terms' = <<>>
    /\ terms_pc' = "start"
    /\ UNCHANGED terms_exists

(***************************************************************************)
(* ScholarAgent.scholar_search                                             *)
(***************************************************************************)
\* page sources: a result page, and two challenge pages
PageResults == <<"g", "s", "_", "r">>
PageCaptcha == <<"c", "a", "p", "t", "c", "h", "a">>
PageReCaptcha == <<"r", "e", "C", "A", "P", "T", "C", "H", "A">>

Pages == {PageResults, PageCaptcha, PageReCaptcha}

\* line 242: 'captcha' in driver.page_source.lower()
\* (faulty variant: the page source is not lower-cased)
CaptchaInSourceAsIs(source) == Contains(source, PageCaptcha)
CaptchaInSource(source) == Contains(Lower(source), PageCaptcha)

\* a result node: whether its h3.gs_rt element is found, and the href of
\* its first <a> (NoLink: no <a>)
Node(found, link) == [found |-> found, link |-> link]

Nodes ==
    {Node(TRUE, LinkA), Node(TRUE, LinkH), Node(TRUE, NoLink),
     Node(FALSE, NoLink)}

\* lines 253-262: the (title, link) of a node whose title element is found
Extracted(node) ==
    LET pdf_url == IF node.link # NoLink /\ ~IsPdfLink(node.link)
                   THEN FindPdfOnLandingPage(node.link) ELSE NoLink
    IN  Candidate(IF pdf_url # NoLink THEN pdf_url ELSE node.link)

\* lines 273-274, `finally: driver.quit()`, runs however the try block is
\* left: "normal", "block", "except" (an exception line 269 caught) or
\* "unwind" (one it did not catch)
\* (faulty variant: quit() follows the try block without a finally)
QuitsOnNormalExit(exit) == exit \in {"normal", "block", "except"}
QuitsOn(exit) == exit \in {"normal", "block", "except", "unwind"}

\* where control goes when the try block is left
AfterTry(exit) ==
    IF QuitsOn(exit) THEN "finally"
    ELSE IF exit = "unwind" THEN "raised" ELSE "return"

\* lines 263-264, `except Exception: continue`: after a node that raised
\* the loop goes on with the next node
\* (faulty variant: the error ends the scrape through the outer except)
NodeErrorEndsScrape == AfterTry("except")
NodeErrorGoesTo == "extract"

\* a call scholar_search(query, num_results=n)
SearchInit ==
    /\ num_results \in 0..MaxNumResults
    /\ page_source \in Pages
    /\ s_nodes \in SeqsUpTo(Nodes, MaxNodes)
    /\ s_results = <<>>
    /\ captcha_or_error = FALSE
    /\ s_articles = <<>>
    /\ s_k = 0
    /\ s_pending = ""
    /\ s_pc = "start"
    /\ session = "none"
    /\ quits = 0
    /\ submits = 0
    /\ providers = {}

\* no scholar_search call
SearchIdle ==
    /\ num_results = 0
    /\ page_source = <<>>
    /\ s_nodes = <<>>
    /\ s_results = <<>>
    /\ captcha_or_error = FALSE
    /\ s_articles = <<>>
    /\ s_k = 0
    /\ s_pending = ""
    /\ s_pc = "idle"
    /\ session = "none"
    /\ quits = 0
    /\ submits = 0
    /\ providers = {}

\* lines 229-232: the driver is installed and the browser starts
OpenBrowser ==
    /\ s_pc = "start"
    /\ session' = "open"
    /\ s_pc' = "get"
    /\ UNCHANGED <<num_results, page_source, s_nodes, s_results,
                   captcha_or_error, s_articles, s_k, s_pending, quits,
                   submits, providers>>

\* lines 229-230 raise: no browser was started, the call raises
OpenFails ==
    /\ s_pc = "start"
    /\ s_pending' = "WebDriverException"
    /\ s_pc' = "raised"
    /\ UNCHANGED <<num_results, page_source, s_nodes, s_results,
                   captcha_or_error, s_articles, s_k, session, quits,
                   submits, providers>>

\* line 234-235: driver.get
Navigate ==
    /\ s_pc = "get"
    /\ providers' = providers \cup {"scholar.google.com"}
    /\ s_pc' = "find_box"
    /\ UNCHANGED <<num_results, page_source, s_nodes, s_results,
                   captcha_or_error, s_articles, s_k, s_pending, session,
                   quits, submits>>

\* lines 236-237: the search box is found and cleared
FindBox ==
    /\ s_pc = "find_box"
    /\ s_pc' = "submit"
    /\ UNCHANGED <<num_results, page_source, s_nodes, s_results,
                   captcha_or_error, s_articles, s_k, s_pending, session,
                   quits, submits, providers>>

\* lines 238-241: the query is typed and submitted
Submit ==
    /\ s_pc = "submit"
    /\ submits' = submits + 1
    /\ s_pc' = "page"
    /\ UNCHANGED <<num_results, page_source, s_nodes, s_results,
                   captcha_or_error, s_articles, s_k, s_pending, session,
                   quits, providers>>

\* lines 242-245: the page is a challenge
DetectBlock ==
    /\ s_pc = "page"
    /\ CaptchaInSource(page_source)
    /\ captcha_or_error' = TRUE
    /\ s_pc' = AfterTry("block")
    /\ UNCHANGED <<num_results, page_source, s_nodes, s_results,
                   s_articles, s_k, s_pending, session, quits, submits,
                   providers>>

\* lines 246-248: the first num_results result nodes
ListArticles ==
    /\ s_pc = "page"
    /\ ~CaptchaInSource(page_source)
    /\ s_articles' = SliceTo(s_nodes, num_results)
    /\ s_pc' = "extract"
    /\ UNCHANGED <<num_results, page_source, s_nodes, s_results,
                   captcha_or_error, s_k, s_pending, session, quits, submits,
                   providers>>

\* lines 249-264: one pass of `for art in articles`; a node whose title
\* element is missing raises inside the inner try and is passed over
ExtractNode ==
    /\ s_pc = "extract"
    /\ s_k < Len(s_articles)
    /\ LET node == s_articles[s_k + 1]
       IN  IF node.found
           THEN /\ s_results' = Append(s_results, Extracted(node))
                /\ UNCHANGED s_pc
           ELSE /\ s_results' = s_results
                /\ s_pc' = NodeErrorGoesTo
    /\ s_k' = s_k + 1
    /\ UNCHANGED <<num_results, page_source, s_nodes, captcha_or_error,
                   s_articles, s_pending, session, quits, submits,
                   providers>>

\* lines 265-268: the loop is over
ExtractDone ==
    /\ s_pc = "extract"
    /\ s_k = Len(s_articles)
    /\ s_pc' = AfterTry("normal")
    /\ UNCHANGED <<num_results, page_source, s_nodes, s_results,
                   captcha_or_error, s_articles, s_k, s_pending, session,
                   quits, submits, providers>>

\* a step of lines 234-268 raises: a WebDriverException (after the loop: an
\* error of the report of lines 265-268), which line 269 catches, or a
\* KeyboardInterrupt, which it does not; inside the loop the inner except
\* clause has the exceptions line 269 would catch (ExtractNode)
StepRaises ==
    /\ s_pc \in {"get", "find_box", "submit", "page", "extract"}
    /\ \E cls \in {"WebDriverException", "KeyboardInterrupt"} :
         /\ (s_pc = "extract" /\ s_k < Len(s_articles))
               => ~ExceptException(cls)
         /\ IF ExceptException(cls)
            THEN /\ captcha_or_error' = TRUE
                 /\ s_pc' = AfterTry("except")
                 /\ UNCHANGED s_pending
            ELSE /\ s_pending' = cls
                 /\ s_pc' = AfterTry("unwind")
                 /\ UNCHANGED captcha_or_error
    /\ UNCHANGED <<num_results, page_source, s_nodes, s_results, s_articles,
                   s_k, session, quits, submits, providers>>

\* lines 273-274: driver.quit(), then the pending exception goes on
Quit ==
    /\ s_pc = "finally"
    /\ session' = "closed"
    /\ quits' = quits + 1
    /\ s_pc' = IF s_pending # "" THEN "raised" ELSE "return"
    /\ UNCHANGED <<num_results, page_source, s_nodes, s_results,
                   captcha_or_error, s_articles, s_k, s_pending, submits,
                   providers>>

\* line 277: return results
SearchReturn ==
    /\ s_pc = "return"
    /\ s_pc' = "returned"
    /\ UNCHANGED <<num_results, page_source, s_nodes, s_results,
                   captcha_or_error, s_articles, s_k, s_pending, session,
                   quits, submits, providers>>

(***************************************************************************)
(* LLMClient.chunk_text (src/src/services/llm_client.py)                   *)
(***************************************************************************)
ChunkAlphabet == {"a", "b", " "}

\* the texts chunk_text is started with
ChunkTexts == UNION {[1..n -> ChunkAlphabet] : n \in 0..MaxTextLen}

\* "word " * 1050
TestText ==
    [i \in 1..(5 * TestWords) |->
        CASE i % 5 = 1 -> "w" [] i % 5 = 2 -> "o" [] i % 5 = 3 -> "r"
          [] i % 5 = 4 -> "d" [] OTHER -> " "]

\* text.split(): the maximal runs of characters that are not whitespace
Split(text) ==
    LET n         == Len(text)
        positions == [i \in 1..n |-> i]
        IsStart(i) == ~IsSpace(text[i]) /\ (i = 1 \/ IsSpace(text[i - 1]))
        IsEnd(i)   == ~IsSpace(text[i]) /\ (i = n \/ IsSpace(text[i + 1]))
        starts    == SelectSeq(positions, IsStart)
        ends      == SelectSeq(positions, IsEnd)
    IN  [k \in 1..Len(starts) |-> SubSeq(text, starts[k], ends[k])]

\* ' '.join(words[lo-1:hi])
RECURSIVE JoinRange(_, _, _)
JoinRange(words, lo, hi) ==
    IF lo > hi THEN <<>>
    ELSE IF lo = hi THEN words[lo]
    ELSE LET mid == (lo + hi) \div 2
         IN  JoinRange(words, lo, mid) \o <<" ">>
               \o JoinRange(words, mid + 1, hi)

\* the position a slice bound i stands for in a list of n items: a negative
\* bound counts from the end, and both are clipped to 0..n
SliceIndex(i, n) ==
    IF i < 0 THEN (IF i + n < 0 THEN 0 ELSE i + n)
    ELSE IF i > n THEN n ELSE i

\* (faulty variant: the next chunk starts where the previous one ended)
NextStartNoOverlap(end, overlap) == end
\* start = end - overlap
NextStart(end, overlap) == end - overlap

\* chunk_text(text, max_tokens, overlap); overlap may be negative, equal to
\* max_tokens or larger
ChunkInitBounded ==
    /\ ck_text \in ChunkTexts
    /\ ck_max_tokens \in 0..MaxTokens
    /\ ck_overlap \in -1..MaxTokens

\* chunk_text("word " * 1050, max_tokens=1000, overlap=100)
ChunkInitTest ==
    /\ ck_text = TestText
    /\ ck_max_tokens = TestMaxTokens
    /\ ck_overlap = TestOverlap

ChunkInit ==
    /\ ChunkInitBounded \/ ChunkInitTest
    /\ ck_words = <<>>
    /\ ck_chunks = <<>>
    /\ ck_start = 0
    /\ ck_spans = <<>>
    /\ ck_pc = "start"

\* no chunk_text call
ChunkIdle ==
    /\ ck_text = <<>>
    /\ ck_max_tokens = 0
    /\ ck_overlap = 0
    /\ ck_words = <<>>
    /\ ck_chunks = <<>>
    /\ ck_start = 0
    /\ ck_spans = <<>>
    /\ ck_pc = "idle"

\* words = text.split(); chunks = []; start = 0
ChunkSplit ==
    /\ ck_pc = "start"
    /\ ck_words' = Split(ck_text)
    /\ ck_chunks' = <<>>
    /\ ck_start' = 0
    /\ ck_pc' = "loop"
    /\ UNCHANGED <<ck_text, ck_max_tokens, ck_overlap, ck_spans>>

\* one pass of `while start < len(words)`; the first MaxChunks passes of a
\* call are followed
ChunkLoop ==
    /\ ck_pc = "loop"
    /\ ck_start < Len(ck_words)
    /\ Len(ck_chunks) < MaxChunks
    /\ LET n   == Len(ck_words)
           end == IF ck_start + ck_max_tokens <= n
                  THEN ck_start + ck_max_tokens ELSE n
           chunk == JoinRange(ck_words, SliceIndex(ck_start, n) + 1,
                              SliceIndex(end, n))
       IN  /\ ck_chunks' = Append(ck_chunks, chunk)
           /\ ck_spans' = Append(ck_spans, <<ck_start, end>>)
           /\ IF end = Len(ck_words)
              THEN ck_pc' = "return" /\ UNCHANGED ck_start
              ELSE ck_start' = NextStart(end, ck_overlap) /\ UNCHANGED ck_pc
    /\ UNCHANGED <<ck_text, ck_max_tokens, ck_overlap, ck_words>>

\* the loop condition is false
ChunkLoopExit ==
    /\ ck_pc = "loop"
    /\ ~(ck_start < Len(ck_words))
    /\ ck_pc' = "return"
    /\ UNCHANGED <<ck_text, ck_max_tokens, ck_overlap, ck_words, ck_chunks,
                   ck_start, ck_spans>>

\* return chunks
ChunkReturn ==
    /\ ck_pc = "return"
    /\ ck_pc' = "returned"
    /\ UNCHANGED <<ck_text, ck_max_tokens, ck_overlap, ck_words, ck_chunks,
                   ck_start, ck_spans>>

(***************************************************************************)
(* ResearchWorkflow (src/src/agent_core/research_workflow.py)              *)
(***************************************************************************)
\* the entries source_dir may hold
FileA == <<"a", ".", "p", "d", "f">>
FileB == <<"b", ".", "P", "D", "F">>
FileT == <<"n", ".", "t", "x", "t">>

FileNames == {FileA, FileB, FileT}

SourceDir == "source"
DestDir == "dest"

\* os.path.join(dest_dir, 'Error')
ErrorDir == DestDir \o "/Error"

\* the sequences without repetition os.listdir may return
Listings ==
    {l \in SeqsUpTo(FileNames, MaxFiles) :
        \A i, j \in 1..Len(l) : i # j => l[i] # l[j]}

\* `f.lower().endswith('.pdf')`
IsPdfName(f) == EndsWith(Lower(f), PdfSuffix)

\* [os.path.join(source_dir, f) for f in os.listdir(source_dir) if ...]
PdfsOf(listing) ==
    LET names == SelectSeq(listing, IsPdfName)
    IN  [i \in 1..Len(names) |-> PathJoin(SourceDir, names[i])]

\* what llm_client.generate_content may answer
Resp09 == <<"0", ".", "9">>
Resp02 == <<"0", ".", "2">>
RespWordThen07 == <<"x", " ", "0", ".", "7">>
RespTwoThenHalf == <<"2", " ", ".", "5">>
RespMinusOne == <<"-", "1">>
RespEmpty == <<>>

FilterResponses ==
    {Resp09, Resp02, RespWordThen07, RespTwoThenHalf, RespMinusOne, RespEmpty}

\* _is_float(s)
IsFloat(s) == ParseFloat(s).ok

\* next(s for s in tokens if self._is_float(s) and 0 <= float(s) <= 1);
\* <<>> stands for StopIteration
RECURSIVE NextUnitToken(_)
NextUnitToken(tokens) ==
    IF tokens = <<>> THEN <<>>
    ELSE IF /\ IsFloat(Head(tokens))
            /\ 0 <= FloatOf(Head(tokens))
            /\ FloatOf(Head(tokens)) <= Scale
         THEN <<Head(tokens)>>
         ELSE NextUnitToken(Tail(tokens))

\* lines 65-68: the parsed score of a response
ParsedScore(response) ==
    LET found == NextUnitToken(Split(response))
    IN  IF found = <<>> THEN 0 ELSE FloatOf(found[1])

\* (faulty variant: an error does not keep a path out)
SelectedDespiteError(score, threshold, error_occurred) == score >= threshold
\* `score >= score_threshold and not error_occurred`
Selected(score, threshold, error_occurred) ==
    score >= threshold /\ ~error_occurred

\* (faulty variant: the destination is listed whether or not the copy worked)
CopiedAfterAny(copied, dest, ok) == Append(copied, dest)
\* lines 127-134: copied.append(dest) unless shutil.copy2 raised
CopiedAfter(copied, dest, ok) ==
    IF ok THEN Append(copied, dest) ELSE copied

\* what exists under the destination before the call
ResearchEnv ==
    /\ rw_dirs \in {{}, {DestDir}, {DestDir, ErrorDir}}
    /\ rw_files = {}
    /\ rw_threshold \in {0, Scale \div 2}

ResearchStart ==
    /\ rw_i = 0
    /\ rw_relevant = <<>>
    /\ rw_error_files = <<>>
    /\ rw_reasons = <<>>
    /\ rw_j = 0
    /\ rw_copied = <<>>
    /\ rw_result = <<>>
    /\ rw_outcomes = <<>>
    /\ rw_filtered = <<>>
    /\ rw_attempts = <<>>

\* filter_pdfs(pdf_paths, score_threshold)
FilterInit ==
    /\ rw_mode = "filter"
    /\ rw_listing = <<>>
    /\ rw_pdf_paths \in
         SeqsUpTo({PathJoin(SourceDir, f) : f \in {FileA, FileB}}, MaxPaths)
    /\ rw_pc = "filter"
    /\ ResearchEnv
    /\ ResearchStart

\* copy_relevant_pdfs(source_dir, dest_dir, score_threshold)
CopyInit ==
    /\ rw_mode = "copy"
    /\ rw_listing \in Listings
    /\ rw_pdf_paths = <<>>
    /\ rw_pc = "start"
    /\ ResearchEnv
    /\ ResearchStart

ResearchInit == FilterInit \/ CopyInit

\* no ResearchWorkflow call
ResearchIdle ==
    /\ rw_mode = "idle"
    /\ rw_listing = <<>>
    /\ rw_pdf_paths = <<>>
    /\ rw_threshold = 0
    /\ rw_dirs = {}
    /\ rw_files = {}
    /\ rw_pc = "idle"
    /\ ResearchStart

\* lines 118-121: create dest_dir, list source_dir, call filter_pdfs
CopyStart ==
    /\ rw_pc = "start"
    /\ rw_dirs' = rw_dirs \cup {DestDir}
    /\ rw_pdf_paths' = PdfsOf(rw_listing)
    /\ rw_pc' = "filter"
    /\ UNCHANGED <<rw_mode, rw_listing, rw_threshold, rw_files, rw_i,
                   rw_relevant, rw_error_files, rw_reasons, rw_j, rw_copied,
                   rw_result, rw_outcomes, rw_filtered, rw_attempts>>

\* line 120: os.listdir(source_dir) raises
ListdirRaises ==
    /\ rw_pc = "start"
    /\ rw_listing = <<>>
    /\ rw_dirs' = rw_dirs \cup {DestDir}
    /\ rw_pc' = "raised"
    /\ UNCHANGED <<rw_mode, rw_listing, rw_pdf_paths, rw_threshold, rw_files,
                   rw_i, rw_relevant, rw_error_files, rw_reasons, rw_j,
                   rw_copied, rw_result, rw_outcomes, rw_filtered,
                   rw_attempts>>

\* lines 46-86: one pass of `for path in pdf_paths`
FilterPath ==
    /\ rw_pc = "filter"
    /\ rw_i < Len(rw_pdf_paths)
    /\ \E extract \in {"ok", "raise"}, llm \in {"ok", "raise"},
          response \in FilterResponses :
         LET path == rw_pdf_paths[rw_i + 1]
             score == IF llm = "ok" THEN ParsedScore(response) ELSE 0
             error_occurred == extract = "raise" \/ llm = "raise"
             selected == Selected(score, rw_threshold, error_occurred)
         IN  /\ llm = "raise" => response = RespEmpty
             /\ rw_reasons' = Append(rw_reasons, <<selected, error_occurred>>)
             /\ rw_relevant' = IF selected THEN Append(rw_relevant, path)
                               ELSE rw_relevant
             /\ rw_error_files' =
                  IF ~selected /\ error_occurred
                  THEN Append(rw_error_files, path) ELSE rw_error_files
             /\ rw_outcomes' =
                  Append(rw_outcomes,
                         [extract |-> extract, llm |-> llm,
                          response |-> response])
    /\ rw_i' = rw_i + 1
    /\ UNCHANGED <<rw_mode, rw_listing, rw_pdf_paths, rw_threshold, rw_dirs,
                   rw_files, rw_j, rw_copied, rw_pc, rw_result, rw_filtered,
                   rw_attempts>>

\* lines 87-100: keep the error files, write the reasons, return
FilterReturn ==
    /\ rw_pc = "filter"
    /\ rw_i = Len(rw_pdf_paths)
    /\ rw_filtered' = <<rw_relevant>>
    /\ IF rw_mode = "filter"
       THEN rw_pc' = "returned" /\ rw_result' = rw_relevant
       ELSE rw_pc' = "copy" /\ UNCHANGED rw_result
    /\ UNCHANGED <<rw_mode, rw_listing, rw_pdf_paths, rw_threshold, rw_dirs,
                   rw_files, rw_i, rw_relevant, rw_error_files, rw_reasons,
                   rw_j, rw_copied, rw_outcomes, rw_attempts>>

\* line 89: the reasons file cannot be opened, filter_pdfs raises
WriteReasonsRaises ==
    /\ rw_pc = "filter"
    /\ rw_i = Len(rw_pdf_paths)
    /\ rw_pc' = "raised"
    /\ UNCHANGED <<rw_mode, rw_listing, rw_pdf_paths, rw_threshold, rw_dirs,
                   rw_files, rw_i, rw_relevant, rw_error_files, rw_reasons,
                   rw_j, rw_copied, rw_result, rw_outcomes, rw_filtered,
                   rw_attempts>>

\* lines 124-134: one pass of `for src in relevant`
CopyRelevant ==
    /\ rw_pc = "copy"
    /\ rw_j < Len(rw_relevant)
    /\ \E ok \in BOOLEAN :
         LET src == rw_relevant[rw_j + 1]
             dest == PathJoin(DestDir, Basename(src))
         IN  /\ rw_files' = IF ok THEN rw_files \cup {dest} ELSE rw_files
             /\ rw_copied' = CopiedAfter(rw_copied, dest, ok)
             /\ rw_attempts' =
                  Append(rw_attempts, [src |-> src, dest |-> dest, ok |-> ok])
    /\ rw_j' = rw_j + 1
    /\ UNCHANGED <<rw_mode, rw_listing, rw_pdf_paths, rw_threshold, rw_dirs,
                   rw_i, rw_relevant, rw_error_files, rw_reasons, rw_pc,
                   rw_result, rw_outcomes, rw_filtered>>

\* lines 136-140: after the last relevant file, create the Error folder when
\* there are error files
CopyRelevantDone ==
    /\ rw_pc = "copy"
    /\ rw_j = Len(rw_relevant)
    /\ IF rw_error_files # <<>>
       THEN /\ rw_dirs' = rw_dirs \cup {ErrorDir}
            /\ rw_pc' = "copy_err"
       ELSE /\ rw_pc' = "return"
            /\ UNCHANGED rw_dirs
    /\ rw_j' = 0
    /\ UNCHANGED <<rw_mode, rw_listing, rw_pdf_paths, rw_threshold, rw_files,
                   rw_i, rw_relevant, rw_error_files, rw_reasons, rw_copied,
                   rw_result, rw_outcomes, rw_filtered, rw_attempts>>

\* lines 141-150: one pass of `for src in error_files`
CopyError ==
    /\ rw_pc = "copy_err"
    /\ rw_j < Len(rw_error_files)
    /\ \E ok \in BOOLEAN :
         LET src == rw_error_files[rw_j + 1]
             dest == PathJoin(ErrorDir, Basename(src))
         IN  /\ rw_files' = IF ok THEN rw_files \cup {dest} ELSE rw_files
             /\ rw_attempts' =
                  Append(rw_attempts, [src |-> src, dest |-> dest, ok |-> ok])
    /\ rw_j' = rw_j + 1
    /\ UNCHANGED <<rw_mode, rw_listing, rw_pdf_paths, rw_threshold, rw_dirs,
                   rw_i, rw_relevant, rw_error_files, rw_reasons, rw_copied,
                   rw_pc, rw_result, rw_outcomes, rw_filtered>>

CopyErrorDone ==
    /\ rw_pc = "copy_err"
    /\ rw_j = Len(rw_error_files)
    /\ rw_pc' = "return"
    /\ UNCHANGED <<rw_mode, rw_listing, rw_pdf_paths, rw_threshold, rw_dirs,
                   rw_files, rw_i, rw_relevant, rw_error_files, rw_reasons,
                   rw_j, rw_copied, rw_result, rw_outcomes, rw_filtered,
                   rw_attempts>>

\* line 151: return copied
CopyReturn ==
    /\ rw_pc = "return"
    /\ rw_result' = rw_copied
    /\ rw_pc' = "returned"
    /\ UNCHANGED <<rw_mode, rw_listing, rw_pdf_paths, rw_threshold, rw_dirs,
                   rw_files, rw_i, rw_relevant, rw_error_files, rw_reasons,
                   rw_j, rw_copied, rw_outcomes, rw_filtered, rw_attempts>>

(***************************************************************************)
(* rename_mode (src/src/agent_core/rename_workflow.py)                     *)
(***************************************************************************)
TargetDir == "target"

FileM == <<"m", ".", "m", "d">>

\* the file names under target_dir
TreeNames == {FileA, FileB, FileM}

Trees ==
    {l \in SeqsUpTo(TreeNames, MaxTree) :
        \A i, j \in 1..Len(l) : i # j => l[i] # l[j]}

ExtTxt == <<".", "t", "x", "t">>
ExtDocx == <<".", "d", "o", "c", "x">>
ExtMd == <<".", "m", "d">>

\* HANDLER_MAP.keys()
HandlerExts == {PdfSuffix, ExtTxt, ExtDocx}

\* os.path.splitext(name): the extension starts at the last dot, unless only
\* dots come before it
SplitExt(name) ==
    LET dots == {i \in 1..Len(name) : name[i] = "."}
        last == CHOOSE i \in dots : \A j \in dots : j <= i
    IN  IF dots = {} \/ \A j \in 1..(last - 1) : name[j] = "."
        THEN <<name, <<>>>>
        ELSE <<SubSeq(name, 1, last - 1), SubSeq(name, last, Len(name))>>

\* ext = os.path.splitext(f)[1].lower()
ExtOf(name) == Lower(SplitExt(name)[2])

\* scan_files(directory, exts)
ScanFiles(tree, exts) ==
    LET names == SelectSeq(tree, LAMBDA f : ExtOf(f) \in exts)
    IN  [i \in 1..Len(names) |-> PathJoin(TargetDir, names[i])]

\* the names the LLM may propose
NameTest == <<"R", "e", "n", "a", "m", "e", "d", "_", "D", "o", "c", "u", "m", "e", "n", "t">>
NameSpaced == <<"m", "y", " ", "d", "o", "c">>
NameDotted == <<"v", "1", ".", "2">>
NameEmpty == <<>>

ProposedNames == {NameTest, NameSpaced, NameDotted, NameEmpty}

\* \w of the regular expression
IsWordChar(c) == c \in UpperLetters \cup LowerLetters \cup Digits \cup {"_"}

\* sanitize_filename(name, ext)
SanitizeFilename(name, ext) ==
    LET kept     == SelectSeq(name, LAMBDA c : IsWordChar(c) \/ c \in {"-", " "})
        stripped == Strip(kept)
        joined   == [i \in 1..Len(stripped) |->
                       IF stripped[i] = " " THEN "_" ELSE stripped[i]]
    IN  IF ~EndsWith(Lower(joined), ext) THEN joined \o ext ELSE joined

\* f"{base}_{counter}{ext}"
Numbered(base, counter, ext) == base \o <<"_">> \o DecStr(counter) \o ext

\* resolve_collision(directory, filename) over the files in fs
RECURSIVE ResolveFrom(_, _, _, _, _, _)
ResolveFrom(fs, directory, base, ext, candidate, counter) ==
    IF PathJoin(directory, candidate) \in fs
    THEN ResolveFrom(fs, directory, base, ext,
                     Numbered(base, counter, ext), counter + 1)
    ELSE candidate

ResolveCollision(fs, directory, filename) ==
    ResolveFrom(fs, directory, SplitExt(filename)[1], SplitExt(filename)[2],
                filename, 1)

\* what llm_client.generate_content does: raise, or answer a name
LlmOutcomes == {<<>>} \cup {<<n>> : n \in ProposedNames}

\* lines 133-151: error_occurred and new_name after one attempt
AttemptOutcome(file_path, extract_ok, llm) ==
    LET after_extract == ~extract_ok   \* error_occurred after lines 133-139
        after_llm == IF llm # <<>> THEN FALSE ELSE TRUE
    IN  IF ~after_llm
        THEN [new_name |-> Strip(llm[1]), error_occurred |-> FALSE]
        ELSE [new_name |-> Basename(file_path), error_occurred |-> TRUE]

\* lines 132-154: `for attempt in range(2)`
TwoAttempts(file_path, extract1, llm1, extract2, llm2) ==
    LET first == AttemptOutcome(file_path, extract1, llm1)
    IN  IF ~first.error_occurred THEN first
        ELSE AttemptOutcome(file_path, extract2, llm2)

RenameStartState ==
    /\ rn_files = <<>>
    /\ rn_k = 0
    /\ rn_results = <<>>
    /\ rn_error_files = <<>>
    /\ rn_j = 0
    /\ rn_return = <<>>
    /\ rn_log = <<>>
    /\ rn_copies = 0

\* rename_mode(target_dir, dest_dir, exts, dry_run, llm_client)
RenameInit ==
    /\ rn_tree \in Trees
    /\ rn_exts \in {HandlerExts, HandlerExts \cup {ExtMd}}
    /\ rn_dry_run \in BOOLEAN
    /\ \/ rn_dirs = {} /\ rn_fs = {}
       \/ /\ rn_dirs = {DestDir}
          /\ rn_fs = {PathJoin(DestDir, SanitizeFilename(NameSpaced, PdfSuffix))}
    /\ rn_dirs0 = rn_dirs
    /\ rn_fs0 = rn_fs
    /\ rn_pc = "start"
    /\ RenameStartState

\* no rename_mode call
RenameIdle ==
    /\ rn_tree = <<>>
    /\ rn_exts = {}
    /\ rn_dry_run = FALSE
    /\ rn_dirs = {}
    /\ rn_fs = {}
    /\ rn_dirs0 = {}
    /\ rn_fs0 = {}
    /\ rn_pc = "idle"
    /\ RenameStartState

\* lines 107-119: create dest_dir, scan, return [] when nothing was found
RenameScan ==
    /\ rn_pc = "start"
    /\ rn_dirs' = rn_dirs \cup {DestDir}
    /\ rn_files' = ScanFiles(rn_tree, rn_exts)
    /\ rn_pc' = IF rn_files' = <<>> THEN "returned" ELSE "loop"
    /\ UNCHANGED <<rn_tree, rn_exts, rn_dry_run, rn_fs, rn_k, rn_results,
                   rn_error_files, rn_j, rn_return, rn_dirs0, rn_fs0, rn_log,
                   rn_copies>>

\* lines 120-169: one pass of `for file_path in files`
RenameFile ==
    /\ rn_pc = "loop"
    /\ rn_k < Len(rn_files)
    /\ LET file_path == rn_files[rn_k + 1]
           ext == ExtOf(Basename(file_path))
       IN  IF ext \notin HandlerExts
           THEN /\ rn_error_files' = Append(rn_error_files, file_path)
                /\ rn_log' = Append(rn_log, [handler |-> FALSE,
                                             proposed |-> <<>>])
                /\ UNCHANGED <<rn_results, rn_fs, rn_copies>>
           ELSE \E extract1, extract2, copy_ok \in BOOLEAN,
                   llm1, llm2 \in LlmOutcomes :
                  LET out == TwoAttempts(file_path, extract1, llm1,
                                         extract2, llm2)
                      new_name ==
                          ResolveCollision(rn_fs, DestDir,
                              SanitizeFilename(out.new_name, ext))
                      new_path == PathJoin(DestDir, new_name)
                      error_occurred ==
                          out.error_occurred \/ (~rn_dry_run /\ ~copy_ok)
                  IN  /\ llm1 # <<>> => llm2 = llm1
                      /\ rn_dry_run => copy_ok
                      /\ rn_fs' = IF ~rn_dry_run /\ copy_ok
                                  THEN rn_fs \cup {new_path} ELSE rn_fs
                      /\ rn_copies' = IF rn_dry_run THEN rn_copies
                                      ELSE rn_copies + 1
                      /\ rn_results' = Append(rn_results,
                                              <<file_path, new_path>>)
                      /\ rn_error_files' =
                           IF error_occurred
                           THEN Append(rn_error_files, file_path)
                           ELSE rn_error_files
                      /\ rn_log' =
                           Append(rn_log,
                                  [handler |-> TRUE,
                                   proposed |-> IF out.error_occurred
                                                THEN <<>>
                                                ELSE <<out.new_name>>])
    /\ rn_k' = rn_k + 1
    /\ UNCHANGED <<rn_tree, rn_exts, rn_dry_run, rn_dirs, rn_files, rn_j,
                   rn_pc, rn_return, rn_dirs0, rn_fs0>>

\* lines 171-174 and 185: after the last file, create the Error folder when
\* there are error files, else return results
RenameFilesDone ==
    /\ rn_pc = "loop"
    /\ rn_k = Len(rn_files)
    /\ IF rn_error_files # <<>>
       THEN /\ rn_dirs' = rn_dirs \cup {ErrorDir}
            /\ rn_pc' = "copy_err"
            /\ UNCHANGED rn_return
       ELSE /\ rn_pc' = "returned"
            /\ rn_return' = rn_results
            /\ UNCHANGED rn_dirs
    /\ UNCHANGED <<rn_tree, rn_exts, rn_dry_run, rn_fs, rn_files, rn_k,
                   rn_results, rn_error_files, rn_j, rn_dirs0, rn_fs0, rn_log,
                   rn_copies>>

\* lines 175-184: one pass of `for src in error_files`
RenameCopyError ==
    /\ rn_pc = "copy_err"
    /\ rn_j < Len(rn_error_files)
    /\ \E copy_ok \in BOOLEAN :
         LET src == rn_error_files[rn_j + 1]
             dest == PathJoin(ErrorDir, Basename(src))
         IN  rn_fs' = IF copy_ok THEN rn_fs \cup {dest} ELSE rn_fs
    /\ rn_copies' = rn_copies + 1
    /\ rn_j' = rn_j + 1
    /\ UNCHANGED <<rn_tree, rn_exts, rn_dry_run, rn_dirs, rn_files, rn_k,
                   rn_results, rn_error_files, rn_pc, rn_return, rn_dirs0,
                   rn_fs0, rn_log>>

\* line 185: return results
RenameReturn ==
    /\ rn_pc = "copy_err"
    /\ rn_j = Len(rn_error_files)
    /\ rn_return' = rn_results
    /\ rn_pc' = "returned"
    /\ UNCHANGED <<rn_tree, rn_exts, rn_dry_run, rn_dirs, rn_fs, rn_files,
                   rn_k, rn_results, rn_error_files, rn_j, rn_dirs0, rn_fs0,
                   rn_log, rn_copies>>

(***************************************************************************)
(* Specifications                                                          *)
(***************************************************************************)
notScoreVars == <<dlVars, selVars, termsVars, searchVars,
    chunkVars,
    researchVars,
    renameVars>>
notDlVars == <<scoreVars, selVars, termsVars, searchVars,
    chunkVars,
    researchVars,
    renameVars>>
notSelVars == <<scoreVars, dlVars, termsVars, searchVars,
    chunkVars,
    researchVars,
    renameVars>>
notTermsVars == <<scoreVars, dlVars, selVars, searchVars,
    chunkVars,
    researchVars,
    renameVars>>
notSearchVars == <<scoreVars, dlVars, selVars, termsVars,
    chunkVars,
    researchVars,
    renameVars>>
notChunkVars == <<scoreVars, dlVars, selVars,
    termsVars, searchVars,
    researchVars,
    renameVars>>
notResearchVars == <<scoreVars, dlVars, selVars,
    termsVars, searchVars, chunkVars,
    renameVars>>
notRenameVars == <<scoreVars, dlVars, selVars,
    termsVars, searchVars, chunkVars, researchVars>>

ScoreNext ==
    \/ ScoreBegin /\ UNCHANGED notScoreVars
    \/ GenerateReturnsNumber /\ UNCHANGED notScoreVars
    \/ GenerateReturnsGarbage /\ UNCHANGED notScoreVars
    \/ GenerateRaises /\ UNCHANGED notScoreVars
    \/ ScoreReturn /\ UNCHANGED notScoreVars

\* scoring calls through one agent
InitScore == ScoreInit /\ DlIdle /\ SelIdle /\ TermsIdle /\ SearchIdle
    /\ ChunkIdle /\ ResearchIdle /\ RenameIdle

SpecScore == InitScore /\ [][ScoreNext]_vars

\* one download_pdfs call
Init == ScoreInit /\ DlInit /\ SelIdle /\ TermsIdle /\ SearchIdle
    /\ ChunkIdle /\ ResearchIdle /\ RenameIdle

Next ==
    \/ DirectPdfOk /\ UNCHANGED notDlVars
    \/ DirectPdfFail /\ UNCHANGED notDlVars
    \/ NotDirectPdf /\ UNCHANGED notDlVars
    \/ DlReturn /\ UNCHANGED notDlVars

Spec == Init /\ [][Next]_vars

\* one select_top_papers_llm call
InitSelect ==
    ScoreInit /\ DlIdle /\ SelInit /\ TermsIdle /\ SearchIdle
    /\ ChunkIdle /\ ResearchIdle /\ RenameIdle

SelectNext ==
    \/ SelClientReady /\ UNCHANGED notSelVars
    \/ SelClientRaises /\ UNCHANGED notSelVars
    \/ SelScore /\ UNCHANGED notSelVars
    \/ SelReturn /\ UNCHANGED notSelVars

SpecSelect == InitSelect /\ [][SelectNext]_vars

\* one read_search_terms call
InitTerms ==
    ScoreInit /\ DlIdle /\ SelIdle /\ TermsInit /\ SearchIdle
    /\ ChunkIdle /\ ResearchIdle /\ RenameIdle

TermsNext ==
    \/ TermsOpen /\ UNCHANGED notTermsVars
    \/ TermsNotFound /\ UNCHANGED notTermsVars
    \/ TermsLine /\ UNCHANGED notTermsVars
    \/ TermsReturn /\ UNCHANGED notTermsVars
    \/ TermsWriteBack /\ UNCHANGED notTermsVars

SpecTerms == InitTerms /\ [][TermsNext]_vars

\* one scholar_search call
InitSearch ==
    ScoreInit /\ DlIdle /\ SelIdle /\ TermsIdle /\ SearchInit
    /\ ChunkIdle /\ ResearchIdle /\ RenameIdle

SearchNext ==
    \/ OpenBrowser /\ UNCHANGED notSearchVars
    \/ OpenFails /\ UNCHANGED notSearchVars
    \/ Navigate /\ UNCHANGED notSearchVars
    \/ FindBox /\ UNCHANGED notSearchVars
    \/ Submit /\ UNCHANGED notSearchVars
    \/ DetectBlock /\ UNCHANGED notSearchVars
    \/ ListArticles /\ UNCHANGED notSearchVars
    \/ ExtractNode /\ UNCHANGED notSearchVars
    \/ ExtractDone /\ UNCHANGED notSearchVars
    \/ StepRaises /\ UNCHANGED notSearchVars
    \/ Quit /\ UNCHANGED notSearchVars
    \/ SearchReturn /\ UNCHANGED notSearchVars

SpecSearch == InitSearch /\ [][SearchNext]_vars

\* one chunk_text call
InitChunk ==
    ScoreInit /\ DlIdle /\ SelIdle /\ TermsIdle /\ SearchIdle
    /\ ChunkInit /\ ResearchIdle /\ RenameIdle

ChunkNext ==
    \/ ChunkSplit /\ UNCHANGED notChunkVars
    \/ ChunkLoop /\ UNCHANGED notChunkVars
    \/ ChunkLoopExit /\ UNCHANGED notChunkVars
    \/ ChunkReturn /\ UNCHANGED notChunkVars

SpecChunk == InitChunk /\ [][ChunkNext]_vars

\* one filter_pdfs or copy_relevant_pdfs call
InitResearch ==
    ScoreInit /\ DlIdle /\ SelIdle /\ TermsIdle /\ SearchIdle
    /\ ChunkIdle /\ ResearchInit /\ RenameIdle

ResearchNext ==
    \/ CopyStart /\ UNCHANGED notResearchVars
    \/ ListdirRaises /\ UNCHANGED notResearchVars
    \/ FilterPath /\ UNCHANGED notResearchVars
    \/ FilterReturn /\ UNCHANGED notResearchVars
    \/ WriteReasonsRaises /\ UNCHANGED notResearchVars
    \/ CopyRelevant /\ UNCHANGED notResearchVars
    \/ CopyRelevantDone /\ UNCHANGED notResearchVars
    \/ CopyError /\ UNCHANGED notResearchVars
    \/ CopyErrorDone /\ UNCHANGED notResearchVars
    \/ CopyReturn /\ UNCHANGED notResearchVars

SpecResearch == InitResearch /\ [][ResearchNext]_vars

\* one rename_mode call
InitRename ==
    ScoreInit /\ DlIdle /\ SelIdle /\ TermsIdle /\ SearchIdle
    /\ ChunkIdle /\ ResearchIdle /\ RenameInit

RenameNext ==
    \/ RenameScan /\ UNCHANGED notRenameVars
    \/ RenameFile /\ UNCHANGED notRenameVars
    \/ RenameFilesDone /\ UNCHANGED notRenameVars
    \/ RenameCopyError /\ UNCHANGED notRenameVars
    \/ RenameReturn /\ UNCHANGED notRenameVars

SpecRename == InitRename /\ [][RenameNext]_vars

(***************************************************************************)
(* Properties of the relevance scorer (checked under SpecScore)            *)
(***************************************************************************)

\* C1: whatever the backend does, the value _llm_score_with_retry returns
\* lies in [0, 1].
C1_ScoreInUnitInterval ==
    score_pc = "returned" => (0 <= result /\ result <= Scale)

\* C2: when every attempt raised or returned text that is not a number, the
\* backend was invoked exactly max_retries times and the call returned 0.0;
\* no exception leaves the call.
C2_AllFailedGivesZero ==
    /\ score_pc \in {"idle", "try", "returned"}
    /\ calls <= MaxRetries
    /\ (score_pc = "returned" /\ allFailed) => (calls = MaxRetries /\ result = 0)

\* a call whose five attempts all failed, the last one by raising, has returned
C2_Witness ==
    /\ score_pc = "returned"
    /\ allFailed
    /\ calls = MaxRetries
    /\ lastOutcome = "raise"
    /\ result = 0

\* C3: a backend invocation that returns, when an earlier invocation returned
\* and none returned in between, was issued at least min_interval after that
\* earlier one returned.
C3_SuccessiveReturnsSpaced ==
    (lastOutcome = "ok" /\ gapOk # -1) => gapOk >= MinInterval

\* two invocations have returned, the second in a later scoring call
C3_Witness ==
    /\ lastOutcome = "ok"
    /\ gapOk >= MinInterval
    /\ calls = 1
    /\ score_pc = "returned"

\* C4: every backend invocation is issued at least min_interval after the
\* previous one was issued, whether or not that one succeeded and whichever
\* scoring call it belonged to.
C4_EveryInvocationSpaced ==
    gapIssue # -1 => gapIssue >= MinInterval

\* C22: the timestamp never decreases; it changes only in a step in which a
\* backend invocation returns, and such a step sets it to the time of the
\* return, whether or not the text parses; a step in which the invocation
\* raises, a sleep and the return to the caller leave it as it was.
C22_StampOnlyOnReturn ==
    [][ /\ last_llm_call' >= last_llm_call
        /\ (last_llm_call' # last_llm_call)
              => (calls' = calls + 1 /\ lastOutcome' = "ok")
        /\ (calls' = calls + 1 /\ lastOutcome' = "ok")
              => (last_llm_call' = lastOkRet' /\ last_llm_call' <= now')
        /\ (calls' = calls + 1 /\ lastOutcome' = "raise")
              => last_llm_call' = last_llm_call ]_vars

\* a response that did not parse stamped the call, then an invocation that
\* raised left the stamp alone
C22_Witness ==
    /\ score_pc = "try"
    /\ calls = 2
    /\ lastOutcome = "raise"
    /\ last_llm_call > 0
    /\ last_llm_call = lastOkRet
    /\ last_llm_call < issuedAt

\* C32: one scoring call invokes the backend at most max_retries times and
\* only until a response parses as a number; a failed attempt that is not the
\* last is followed by a sleep of min_interval and another attempt, the last
\* failed attempt by the return, without a sleep.
C32_RetriesSpacedAndBounded ==
    [][calls' = calls + 1 =>
         /\ score_pc = "try"
         /\ calls' <= MaxRetries
         /\ now' >= now
         /\ ~allFailed' =>
               /\ score_pc' = "returned"
               /\ now' - now <= MaxCallTime
         /\ (allFailed' /\ calls' < MaxRetries) =>
               /\ score_pc' = "try"
               /\ now' - now >= MinInterval
               /\ now' - now <= MinInterval + MaxCallTime
         /\ (allFailed' /\ calls' >= MaxRetries) =>
               /\ score_pc' = "returned"
               /\ now' - now <= MaxCallTime]_vars

\* the fifth attempt, issued min_interval or more after the fourth, failed
\* and the call returned as soon as it had
C32_Witness ==
    /\ score_pc = "returned"
    /\ allFailed
    /\ calls = MaxRetries
    /\ gapIssue >= MinInterval
    /\ now - issuedAt <= MaxCallTime

(***************************************************************************)
(* Properties of download_pdfs (checked under Spec)                        *)
(***************************************************************************)
Successes(res) == Cardinality({i \in 1..Len(res) : res[i].status = "success"})

ItemOf(rec) == [title |-> rec.title, link |-> rec.link, score |-> rec.score]

Statuses == {"success", "fail", "skip"}

\* C5: every queued link is in the Used-Link Set, and no backfilled item has
\* the link of an item queued before it (selected, failed, skipped or
\* backfilled earlier).
C5_BackfillNeverReusesLink ==
    /\ used_links = LinksOf(papers)
    /\ \A j \in (Len(selected0) + 1)..Len(papers) :
         \A i \in 1..(j - 1) : papers[i].link # papers[j].link

\* two replacements were queued after a failed download
C5_Witness ==
    /\ dl_pc = "done"
    /\ Len(backfilled) = 2
    /\ results[1].status = "fail"
    /\ results[Len(selected0) + 1].status = "fail"

\* the downloadable PDF links of the pool
DownloadablePool ==
    {l \in LinksOf(all_papers) : IsPdfLink(l) /\ l \in good}

\* C6 as stated (its bound): with fewer downloadable PDF links in the pool
\* than max_attempts, download_pdfs returns fewer than max_attempts successes.
C6_FewerThanPoolAllows ==
    (dl_pc = "done" /\ Cardinality(DownloadablePool) < max_attempts)
        => Successes(results) < max_attempts

\* the selected entries with a downloadable PDF link, counted with
\* repetition, plus the downloadable PDF links of the pool that no selected
\* entry has
Downloadable ==
    Cardinality({i \in 1..Len(selected0) :
                    IsPdfLink(selected0[i].link) /\ selected0[i].link \in good})
      + Cardinality(DownloadablePool \ LinksOf(selected0))

\* what is left to do: the loop exit, the queued items not yet processed and
\* the PDF links of the pool that can still be backfilled
Rank ==
    (IF dl_pc = "done" THEN 0 ELSE 1)
      + (Len(papers) - idx)
      + Cardinality({l \in LinksOf(all_papers) : IsPdfLink(l)} \ used_links)

\* C6 (amended): download_pdfs terminates (until it has returned a step is
\* possible, and every step lowers Rank, which is never negative), and when
\* the selected entries and the rest of the pool hold fewer downloadable PDF
\* links than max_attempts it returns fewer than max_attempts successes.
C6_TerminatesWithinDownloadable ==
    /\ [](dl_pc = "done" \/ ENABLED Next)
    /\ [](Rank >= 0)
    /\ [][Rank' < Rank]_vars
    /\ []((dl_pc = "done" /\ Downloadable < max_attempts)
            => Successes(results) < max_attempts)

\* a call that backfilled has returned short of max_attempts
C6_Witness ==
    /\ dl_pc = "done"
    /\ Downloadable < max_attempts
    /\ backfilled # <<>>
    /\ Successes(results) = 1

\* the scenario of C7: the top 3 of 5 PDF candidates are selected and their
\* fetches fail
Top3AllFail ==
    /\ all_papers = [i \in 1..5 |-> Candidate(Top3Links[i])]
    /\ selected0 = [i \in 1..3 |-> Paper(Candidate(Top3Links[i]), SelectedScore)]
    /\ max_attempts = 3
    /\ LinksOf(selected0) \cap good = {}

\* C7: in that scenario the manifest holds a fail record for each selected
\* item, both remaining candidates are backfilled and attempted, and the call
\* stops on 3 successes or on an exhausted queue.
C7_Top3Backfill ==
    (Top3AllFail /\ dl_pc = "done") =>
        /\ Len(results) = 5
        /\ \A i \in 1..3 : /\ results[i].status = "fail"
                            /\ ItemOf(results[i]) = selected0[i]
        /\ Len(backfilled) = 2
        /\ LinksOf(backfilled) = {LinkD, LinkE}
        /\ \A i \in 1..2 : /\ ItemOf(results[3 + i]) = backfilled[i]
                            /\ results[3 + i].status \in {"success", "fail"}
                            /\ fetched[3 + i] = backfilled[i].link
        /\ (Successes(results) = 3 \/ idx = Len(papers))

\* the scenario has run: one backfilled candidate downloaded, the other failed
C7_Witness ==
    /\ Top3AllFail
    /\ dl_pc = "done"
    /\ Len(results) = 5
    /\ results[4].status = "success"
    /\ results[5].status = "fail"

\* C8: the successes never exceed max_attempts; once they equal it nothing
\* more is fetched, scored or recorded; a call that returns with fewer has
\* processed every queued item.
C8_StopsAtBudgetOrExhaustion ==
    /\ [](Successes(results) <= max_attempts)
    /\ [][Successes(results) = max_attempts =>
            (results' = results /\ fetched' = fetched /\ scored' = scored)]_vars
    /\ []((dl_pc = "done" /\ Successes(results) < max_attempts)
            => (idx = Len(papers) /\ Len(results) = Len(papers)))

\* the budget was reached while an item was still queued
C8_Witness ==
    /\ dl_pc = "done"
    /\ Successes(results) = max_attempts
    /\ max_attempts = 1
    /\ backfilled # <<>>
    /\ idx < Len(papers)

C10_ManifestInQueueOrder ==
    /\ papers = selected0 \o backfilled
    /\ Len(results) <= Len(selected0) + Len(backfilled)
    /\ \A i \in 1..Len(results) :
         ItemOf(results[i]) = (selected0 \o backfilled)[i]

\* a replacement scored above the selected items was processed after them
C10_Witness ==
    /\ dl_pc = "done"
    /\ Len(selected0) = 2
    /\ Len(results) = 3
    /\ backfilled # <<>>
    /\ results[3].score > results[2].score

\* C11: when download_pdfs has returned, the selected list the caller passed
\* has the length and contents it had before the call, and so has the pool.
C11_CallerListsUntouched ==
    dl_pc = "done" =>
        /\ Len(papers) = Len(selected0)
        /\ papers = selected0
        /\ all_papers = pool0

\* the condition of C12 on the response of a GET
PdfResponse(r) ==
    /\ ~r.raised
    /\ r.status_code = 200
    /\ Len(r.content_type) >= 1
    /\ r.content_type[1] = "application/pdf"
    /\ r.written

\* C12: the loop pass that issued a GET appended a success record exactly
\* when the response had status 200, a content type starting with
\* application/pdf and the file was written; in every other case it appended
\* a fail record and went on to the backfill step.
C12_SuccessIffPdfResponse ==
    (last_get # <<>> /\ dl_pc # "raised") =>
        LET r   == last_get[1]
            rec == results[Len(results)]
        IN  /\ rec.link = fetched[Len(fetched)]
            /\ (rec.status = "success") <=> PdfResponse(r)
            /\ ~PdfResponse(r) => (rec.status = "fail" /\ triggered)
            /\ PdfResponse(r) => ~triggered

\* a success with a parameterised content type, then a failed write
C12_Witness ==
    /\ Len(results) = 2
    /\ results[1].status = "success"
    /\ results[2].status = "fail"
    /\ last_get # <<>>
    /\ last_get[1].status_code = 200
    /\ ~last_get[1].written
    /\ triggered

\* C13: download_pdfs raises no exception, and what it returns is a manifest
\* with one well-formed record for each item it dequeued.
C13_NoExceptionEscapes ==
    /\ dl_pc # "raised"
    /\ dl_pc = "done" =>
          /\ Len(results) = idx
          /\ \A i \in 1..Len(results) : results[i].status \in Statuses

\* returned after a replacement scored 0.0 was queued and its GET raised
C13_Witness ==
    /\ dl_pc = "done"
    /\ Len(results) = 2
    /\ backfilled # <<>>
    /\ backfilled[1].score = 0
    /\ last_get # <<>>
    /\ last_get[1].raised

\* the pool entries with a PDF-suffixed link outside the Used-Link Set, in
\* pool order
UnusedPdfCandidates ==
    SelectSeq(all_papers,
              LAMBDA p : IsPdfLink(p.link) /\ p.link \notin used_links)

\* pool, query and scoring client were supplied
BackfillEnabled == all_papers # <<>> /\ query # "" /\ llm_client

\* a loop pass that reached the backfill step
TriggerStep == results' # results /\ triggered'

\* the step scored every unused PDF candidate once, in pool order, and
\* appended the one with the highest score, the earliest of them on a tie,
\* to the queue and its link to the Used-Link Set
ScoredAllAppendedBest ==
    /\ Len(last_scored') = Len(UnusedPdfCandidates)
    /\ \A i \in 1..Len(UnusedPdfCandidates) :
         /\ last_scored'[i].title = UnusedPdfCandidates[i].title
         /\ last_scored'[i].link = UnusedPdfCandidates[i].link
    /\ scored' = scored + Len(UnusedPdfCandidates)
    /\ Len(papers') = Len(papers) + 1
    /\ SubSeq(papers', 1, Len(papers)) = papers
    /\ LET new == papers'[Len(papers')]
       IN  /\ used_links' = used_links \cup {new.link}
           /\ \E i \in 1..Len(last_scored') :
                /\ last_scored'[i] = new
                /\ \A j \in 1..Len(last_scored') :
                     last_scored'[j].score <= new.score
                /\ \A j \in 1..(i - 1) : last_scored'[j].score < new.score

C30_NoCandidateNoOp ==
    [][(TriggerStep /\ UnusedPdfCandidates = <<>>)
          => /\ last_scored' = <<>>
             /\ scored' = scored
             /\ papers' = papers
             /\ used_links' = used_links]_vars

\* an enabled backfill found every PDF link of the pool used
C30_Witness ==
    /\ triggered
    /\ BackfillEnabled
    /\ last_scored = <<>>
    /\ \E i \in 1..Len(all_papers) : IsPdfLink(all_papers[i].link)
    /\ \A i \in 1..Len(all_papers) :
         IsPdfLink(all_papers[i].link) => all_papers[i].link \in used_links
    /\ results[Len(results)].status = "fail"

\* C31: with backfill enabled and at least max_attempts items selected,
\* download_pdfs returns with fewer than max_attempts success records only
\* when every PDF-suffixed link of the pool is in the Used-Link Set, its item
\* queued and processed.
C31_ShortfallOnlyWhenPoolUsedUp ==
    ( /\ dl_pc = "done"
      /\ all_papers # <<>> /\ query # "" /\ llm_client
      /\ Len(selected0) >= max_attempts
      /\ Cardinality({i \in 1..Len(results) : results[i].status = "success"})
           < max_attempts )
    => \A i \in 1..Len(all_papers) :
          EndsWith(Lower(all_papers[i].link), PdfSuffix) =>
             /\ all_papers[i].link \in used_links
             /\ \E k \in 1..Len(papers) :
                   /\ papers[k].link = all_papers[i].link
                   /\ k <= idx
                   /\ \E n \in 1..Len(results) :
                         results[n].link = all_papers[i].link

\* the budget was missed although a replacement from the pool was tried
C31_Witness ==
    /\ dl_pc = "done"
    /\ all_papers # <<>> /\ query # "" /\ llm_client
    /\ max_attempts >= 1
    /\ Len(selected0) >= max_attempts
    /\ attempts < max_attempts
    /\ backfilled # <<>>
    /\ \E i \in 1..Len(all_papers) : IsPdfLink(all_papers[i].link)

\* C33: a GET is issued only for a queued item whose link ends in .pdf,
\* whatever the case of the letters, and to that link; an item with an empty
\* or other link gets one skip record, no GET and one backfill trigger.
C33_GetOnlyForPdfLinks ==
    [][LET item    == papers[idx + 1]
           pdfLink == /\ item.link # <<>>
                      /\ EndsWith(Lower(item.link), PdfSuffix)
       IN  /\ fetched' # fetched =>
                 pdfLink /\ fetched' = Append(fetched, item.link)
           /\ (idx' # idx /\ ~pdfLink) =>
                 /\ fetched' = fetched
                 /\ Len(results') = Len(results) + 1
                 /\ results'[Len(results')].status = "skip"
                 /\ results'[Len(results')].title = item.title
                 /\ results'[Len(results')].link = item.link
                 /\ triggered'
                 /\ Len(papers') <= Len(papers) + 1]_vars

\* an item without a link and a landing-page item were both skipped and
\* nothing was fetched
C33_Witness ==
    /\ Len(results) = 2
    /\ results[1].status = "skip" /\ results[1].link = NoLink
    /\ results[2].status = "skip" /\ results[2].link = LinkH
    /\ fetched = <<>>
    /\ triggered

\* C34: when the pool, the query or the scoring client is missing, no
\* scoring call is made, the queue stays the selected list and the manifest
\* has at most one record per selected item.
C34_NoBackfillWithoutAllThree ==
    (all_papers = <<>> \/ query = "" \/ ~llm_client)
    => /\ scored = 0
       /\ last_scored = <<>>
       /\ backfilled = <<>>
       /\ papers = selected0
       /\ Len(results) <= Len(selected0)

\* a download failed with an unused PDF link in the pool but no query, and
\* the call returned without a replacement
C34_Witness ==
    /\ dl_pc = "done"
    /\ query = ""
    /\ llm_client
    /\ triggered
    /\ \E i \in 1..Len(all_papers) :
         IsPdfLink(all_papers[i].link) /\ all_papers[i].link \notin used_links
    /\ results[Len(results)].status = "fail"

\* the file paths of the success records, in manifest order
SuccessFiles ==
    LET ok == SelectSeq(results, LAMBDA rec : rec.status = "success")
    IN  [k \in 1..Len(ok) |-> ok[k].info[1]]

\* the number a file name starts with, up to its first underscore
NumericPrefix(name) ==
    LET first == CHOOSE i \in 1..Len(name) :
                    name[i] = "_" /\ \A j \in 1..(i - 1) : name[j] # "_"
    IN  DigitsVal(SubSeq(name, 1, first - 1))

\* C35: the file name of the k-th success record starts with the number k,
\* and no two success records have the same file path.
C35_SuccessFilesNumbered ==
    /\ \A k \in 1..Len(SuccessFiles) :
         /\ \E i \in 1..Len(SuccessFiles[k].name) :
               SuccessFiles[k].name[i] = "_"
         /\ NumericPrefix(SuccessFiles[k].name) = k
    /\ \A j, k \in 1..Len(SuccessFiles) :
         j # k => SuccessFiles[j] # SuccessFiles[k]

\* the second and third items of the queue were downloaded after the first
\* one had failed
C35_Witness ==
    /\ Len(results) >= 3
    /\ results[1].status = "fail"
    /\ results[2].status = "success"
    /\ results[3].status = "success"
    /\ Len(SuccessFiles) >= 2

(***************************************************************************)
(* Properties of select_top_papers_llm (checked under SpecSelect)          *)
(***************************************************************************)
Min(a, b) == IF a <= b THEN a ELSE b

\* the ways to read the result as positions of the input: position k of the
\* result is candidate f[k] with the score computed for it, no candidate
\* twice
Readings ==
    {f \in [1..Len(sel_result) -> 1..Len(sel_papers)] :
        /\ \A i, j \in 1..Len(sel_result) : i # j => f[i] # f[j]
        /\ \A k \in 1..Len(sel_result) :
             sel_result[k] = Paper(sel_papers[f[k]], sel_scored[f[k]].score)}

\* C14: the result has min(top_n, number of candidates) entries, each an
\* input candidate with the score computed for it.
C14_MinOfNAndCandidates ==
    sel_pc = "returned" =>
        /\ Len(sel_result) = Min(top_n, Len(sel_papers))
        /\ Readings # {}

\* the cut left a candidate out and the first candidate is not first
C14_Witness ==
    /\ sel_pc = "returned"
    /\ Len(sel_papers) = 3
    /\ top_n = 2
    /\ Len(sel_result) = 2
    /\ sel_result[1].link # sel_papers[1].link

\* how many entries of s score above x
CountAbove(s, x) == Cardinality({i \in 1..Len(s) : s[i].score > x})

QueryLine(line) ==
    /\ line # <<>>
    /\ line[1] # "#"
    /\ ~((\A i \in 1..Len(line) : line[i] \notin LowerLetters)
            /\ Len(line) < HeaderMaxLen)
    /\ ~StartsWith(line, ExamplePrefix)
    /\ ~StartsWith(line, ProTipPrefix)
    /\ ~StartsWith(line, TipsPrefix)
    /\ line[Len(line)] # ":"
    /\ line # LineAndExplained
    /\ line # LineOrExplained
    /\ Contains(line, <<"A", "N", "D">>) \/ Contains(line, <<"O", "R">>)
    /\ \E i \in 1..Len(line) : line[i] \in {"(", ")", "\""}

StrippedLines == [i \in 1..Len(terms_file) |-> Strip(terms_file[i])]

\* C17: the returned terms are, in file order, the stripped lines that meet
\* the rule; for the test file they are its two query lines.
C17_ExactlyTheQueryLines ==
    terms_pc = "returned" =>
        /\ terms = SelectSeq(StrippedLines, QueryLine)
        /\ terms_file = TestFile => terms = <<LineFooBar, LineAlphaBeta>>

\* a padded line was returned stripped, before a long upper-case query
C17_Witness ==
    /\ terms_pc = "returned"
    /\ terms_file = FileOf(<<LinePadded, LineCapsLong>>)
    /\ terms = << <<"(", "a", " ", "A", "N", "D", " ", "b", ")">>,
                  LineCapsLong >>

\* C18: with no file at the path the call ends by raising FileNotFoundError:
\* it reads nothing and never returns a list.
C18_MissingFileRaises ==
    ~terms_exists =>
        /\ terms_pc \in {"start", "raised"}
        /\ terms = <<>>

\* the call has raised
C18_Witness == ~terms_exists /\ terms_pc = "raised"

\* C39: loading the search terms is idempotent: when the lines a load
\* returned are written to the file, one per line, the next load returns
\* the same sequence of lines.
C39_ReloadReturnsSame ==
    (terms_pc = "returned" /\ terms_first # <<>>) => terms = terms_first[1]

\* the second load returned the two lines of the first, one of which had
\* been padded in the original file
C39_Witness ==
    /\ terms_pc = "returned"
    /\ terms_first = << << <<"(", "a", " ", "A", "N", "D", " ", "b", ")">>,
                           LineCapsLong >> >>
    /\ terms = terms_first[1]
    /\ terms_i = 2

(***************************************************************************)
(* Properties of scholar_search (checked under SpecSearch)                 *)
(***************************************************************************)
\* the page rendered after the submission is a challenge
BlockShown == page_source \in {PageCaptcha, PageReCaptcha}

C20_SessionClosedOnce ==
    /\ quits <= 1
    /\ session = "none" => quits = 0
    /\ session = "closed" <=> quits = 1
    /\ (s_pc \in {"return", "returned", "raised"} /\ session # "none")
          => (session = "closed" /\ quits = 1)

\* an exception the except clause does not catch left the call, after the
\* browser was closed
C20_Witness ==
    /\ s_pc = "raised"
    /\ s_pending = "KeyboardInterrupt"
    /\ session = "closed"
    /\ quits = 1

\* the (title, link) pairs of the first n result nodes of the page whose
\* title element can be read, in page order
ParsedPairs(n) ==
    LET first  == SubSeq(s_nodes, 1, Min(n, Len(s_nodes)))
        parsed == SelectSeq(first, LAMBDA node : node.found)
    IN  [i \in 1..Len(parsed) |->
            [title |-> TitleOf(parsed[i].link), link |-> parsed[i].link]]

\* C21: scholar_search never holds more than num_results pairs, and a call
\* that scraped a result page returns the pairs of the readable nodes among
\* the first num_results, in page order.
C21_AtMostNInPageOrder ==
    /\ Len(s_results) <= num_results
    /\ (s_pc = "returned" /\ ~captcha_or_error)
          => s_results = ParsedPairs(num_results)

\* an unreadable node between two readable ones was skipped
C21_Witness ==
    /\ s_pc = "returned"
    /\ ~captcha_or_error
    /\ num_results = 3
    /\ Len(s_nodes) = 3
    /\ s_nodes[1].found
    /\ ~s_nodes[2].found
    /\ s_nodes[3].found
    /\ Len(s_results) = 2

\* an exception caught by the outer except clause leaves the pairs gathered
\* so far as they are, and the call goes on through finally to return them
RecoveredLocally ==
    /\ (captcha_or_error' /\ ~captcha_or_error)
          => (s_results' = s_results /\ s_pending' = "" /\ s_pc' = "finally")
    /\ (s_pc \in {"finally", "return"} /\ s_pending = "")
          => (s_results' = s_results /\ s_pc' \in {"return", "returned"})

ChunksCoverText ==
    LET words == Split(ck_text)
        n     == Len(words)
    IN  /\ Len(ck_spans) = Len(ck_chunks)
        /\ \A k \in 1..Len(ck_chunks) :
             /\ Split(ck_chunks[k])
                  = SubSeq(words, ck_spans[k][1] + 1, ck_spans[k][2])
             /\ Len(Split(ck_chunks[k])) <= ck_max_tokens
        /\ n > 0 => /\ ck_chunks # <<>>
                    /\ ck_spans[1][1] = 0
                    /\ ck_spans[Len(ck_spans)][2] = n
        /\ \A k \in 1..(Len(ck_chunks) - 1) :
             ck_spans[k + 1][1] = ck_spans[k][2] - ck_overlap
        /\ \A i \in 1..n :
             \E k \in 1..Len(ck_spans) :
                ck_spans[k][1] < i /\ i <= ck_spans[k][2]

\* the two examples: the 1050-word text gives two chunks under
\* max_tokens=1000 and overlap=100, a text without words gives none
ChunkExamples ==
    /\ (ck_text = TestText /\ ck_max_tokens = TestMaxTokens
          /\ ck_overlap = TestOverlap) => Len(ck_chunks) = 2
    /\ Split(ck_text) = <<>> => ck_chunks = <<>>

\* C28 as stated: for every overlap < max_tokens the returned chunks cover
\* the text as described.
C28_ChunksCoverText ==
    (ck_pc = "returned" /\ ck_overlap < ck_max_tokens)
        => ChunksCoverText /\ ChunkExamples

\* C28 (amended): for 0 <= overlap < max_tokens the returned chunks hold at
\* most max_tokens words each, the first starts at word 0, each next one
\* starts overlap words before the end of the one before it, the last ends
\* at the final word and every word is covered; the 1050-word text gives two
\* chunks and a text without words none.
C28_NonNegativeOverlapCovers ==
    (ck_pc = "returned" /\ 0 <= ck_overlap /\ ck_overlap < ck_max_tokens)
        => ChunksCoverText /\ ChunkExamples

\* a text of three words was returned in two overlapping chunks
C28_Witness ==
    /\ ck_pc = "returned"
    /\ Len(Split(ck_text)) = 3
    /\ ck_max_tokens = 2
    /\ ck_overlap = 1
    /\ ck_spans = <<(<<0, 2>>), (<<1, 3>>)>>

\* C36: chunk_text terminates for every text and every non-negative
\* max_tokens and overlap.  The loop is left when end reaches len(words) and
\* is otherwise determined by start alone, so it terminates exactly when
\* every pass that continues moves start forward.
C36_EveryPassAdvances ==
    [][(/\ ck_max_tokens >= 0
        /\ ck_overlap >= 0
        /\ ck_pc = "loop"
        /\ ck_pc' = "loop"
        /\ Len(ck_chunks') = Len(ck_chunks) + 1)
          => ck_start' > ck_start]_vars

(***************************************************************************)
(* Properties of ResearchWorkflow (checked under SpecResearch)             *)
(***************************************************************************)

\* the first whitespace-separated token of the response that is a number in
\* [0, 1], else 0.0
FirstUnitScore(response) ==
    LET tokens == Split(response)
        units  == {i \in 1..Len(tokens) :
                     /\ ParseFloat(tokens[i]).ok
                     /\ ParseFloat(tokens[i]).val >= 0
                     /\ ParseFloat(tokens[i]).val <= Scale}
    IN  IF units = {} THEN 0
        ELSE ParseFloat(tokens[CHOOSE i \in units :
                                  \A j \in units : i <= j]).val

\* the paths at the positions in S, in input order
PathsAt(S) ==
    LET at == SelectSeq([i \in 1..Len(rw_pdf_paths) |-> i],
                        LAMBDA i : i \in S)
    IN  [k \in 1..Len(at) |-> rw_pdf_paths[at[k]]]

\* positions whose extraction or LLM call raised
HitError ==
    {i \in 1..Len(rw_outcomes) :
        rw_outcomes[i].extract = "raise" \/ rw_outcomes[i].llm = "raise"}

\* positions without an error whose parsed score reaches the threshold
CleanAndAbove ==
    {i \in 1..Len(rw_outcomes) :
        /\ i \notin HitError
        /\ FirstUnitScore(rw_outcomes[i].response) >= rw_threshold}

\* C24: the list filter_pdfs returns is, in input order, the paths that hit
\* no error and whose parsed score is >= score_threshold; the paths that hit
\* an error are the recorded error files.
C24_FilterReturnsCleanAbove ==
    rw_filtered # <<>> =>
        /\ Len(rw_outcomes) = Len(rw_pdf_paths)
        /\ rw_filtered[1] = PathsAt(CleanAndAbove)
        /\ rw_error_files = PathsAt(HitError)

\* filter_pdfs returned the second of two paths: the first one answered 0.9
\* but its extraction had failed, and it is the error file
C24_Witness ==
    /\ rw_mode = "filter"
    /\ rw_pc = "returned"
    /\ Len(rw_pdf_paths) = 2
    /\ rw_outcomes[1] = [extract |-> "raise", llm |-> "ok", response |-> Resp09]
    /\ rw_outcomes[2].response = RespTwoThenHalf
    /\ rw_result = <<rw_pdf_paths[2]>>
    /\ rw_error_files = <<rw_pdf_paths[1]>>

\* the copies of the relevant files, in the order they were made
RelevantCopies == SubSeq(rw_attempts, 1, Len(rw_filtered[1]))

\* the destinations of the attempts that succeeded, in order
Succeeded(copies) ==
    LET done == SelectSeq(copies, LAMBDA a : a.ok)
    IN  [k \in 1..Len(done) |-> done[k].dest]

\* C25: copy_relevant_pdfs considers every PDF of source_dir, copies each
\* relevant one into dest_dir under its base name and returns the
\* destinations of the copies that succeeded; the error files are copied into
\* dest_dir/Error and are not in the returned list.
C25_CopiesRelevantReturnsSucceeded ==
    (rw_mode = "copy" /\ rw_pc = "returned") =>
        /\ \A i \in 1..Len(rw_listing) :
             EndsWith(Lower(rw_listing[i]), PdfSuffix) =>
                \E k \in 1..Len(rw_pdf_paths) :
                   rw_pdf_paths[k] = [dir |-> SourceDir,
                                      name |-> rw_listing[i]]
        /\ Len(rw_attempts) = Len(rw_filtered[1]) + Len(rw_error_files)
        /\ \A k \in 1..Len(rw_filtered[1]) :
             /\ rw_attempts[k].src = rw_filtered[1][k]
             /\ rw_attempts[k].dest = [dir |-> DestDir,
                                       name |-> rw_filtered[1][k].name]
        /\ rw_result = Succeeded(RelevantCopies)
        /\ \A k \in 1..Len(rw_error_files) :
             LET a == rw_attempts[Len(rw_filtered[1]) + k]
             IN  /\ a.src = rw_error_files[k]
                 /\ a.dest = [dir |-> ErrorDir,
                              name |-> rw_error_files[k].name]
                 /\ \A r \in 1..Len(rw_result) :
                      /\ rw_result[r] # a.dest
                      /\ rw_result[r].name # rw_error_files[k].name
        /\ rw_files = {rw_attempts[k].dest :
                          k \in {n \in 1..Len(rw_attempts) :
                                    rw_attempts[n].ok}}
        /\ rw_error_files # <<>> => ErrorDir \in rw_dirs
        /\ DestDir \in rw_dirs

\* of two PDFs one was relevant and copied, the other hit an error and went
\* to the Error folder
C25_Witness ==
    /\ rw_mode = "copy"
    /\ rw_pc = "returned"
    /\ Len(rw_result) = 1
    /\ rw_result[1] \in rw_files
    /\ Len(rw_error_files) = 1
    /\ [dir |-> ErrorDir, name |-> rw_error_files[1].name] \in rw_files

(***************************************************************************)
(* Properties of rename_mode (checked under SpecRename)                    *)
(***************************************************************************)

\* the scanned files that have a handler, in scan order
HandledAt ==
    SelectSeq([i \in 1..Len(rn_log) |-> i], LAMBDA i : rn_log[i].handler)

\* name is the sanitized proposal, or the sanitized proposal with a counter
\* before its extension
SanitizedOrCounted(name, proposal, ext) ==
    LET clean == SanitizeFilename(proposal, ext)
    IN  \/ name = clean
        \/ \E counter \in 1..(Cardinality(rn_fs) + 1) :
              name = SubSeq(clean, 1, Len(clean) - Len(ext))
                       \o <<"_">> \o DecStr(counter) \o ext

\* C26: the returned list holds one pair per scanned file with a handler, in
\* scan order and none for the other files; where the LLM proposed a name,
\* the new file name is its sanitized form, with a counter on collision, and
\* ends with the extension of the file.
C26_OnePairPerHandledFile ==
    rn_pc = "returned" =>
        /\ Len(rn_return) = Len(HandledAt)
        /\ \A n \in 1..Len(HandledAt) :
             LET file == rn_files[HandledAt[n]]
                 ext  == Lower(SplitExt(file.name)[2])
                 pair == rn_return[n]
             IN  /\ pair[1] = file
                 /\ pair[2].dir = DestDir
                 /\ EndsWith(Lower(pair[2].name), ext)
                 /\ rn_log[HandledAt[n]].proposed # <<>> =>
                      SanitizedOrCounted(pair[2].name,
                                         rn_log[HandledAt[n]].proposed[1],
                                         ext)

\* C27: with dry_run=True no copy is made and no file or directory appears
\* under the destination.
C27_DryRunTouchesNothing ==
    rn_dry_run =>
        /\ rn_copies = 0
        /\ rn_fs = rn_fs0
        /\ rn_dirs \ {DestDir} = rn_dirs0 \ {DestDir}

\* C37: the pairs rename_mode has gathered for different source files name
\* different destination paths (the first half of the claim; the claim as a
\* whole fails where this half does).
C37_DistinctDestinations ==
    \A i, j \in 1..Len(rn_results) :
        rn_results[i][1] # rn_results[j][1]
            => rn_results[i][2] # rn_results[j][2]

====
